---- MODULE Spec2Model ----
(***************************************************************************)
(* A model of the cinder-volume snap's configuration-to-artifact pipeline: *)
(* validation of the configuration document (configuration.py), the        *)
(* backend context classes (context.py) and the install/configure hooks    *)
(* that render templates and start or restart services (cinder_volume.py). *)
(*                                                                         *)
(* Strings that the code takes apart or puts together (instance keys, file *)
(* names) are sequences of tokens; a value of a configuration field is a   *)
(* one-field record that carries its Python type: [s |-> ..] a str,        *)
(* [b |-> ..] a bool, [i |-> ..] an int, [none |-> ..] None.               *)
(***************************************************************************)
EXTENDS Integers, Sequences, FiniteSets, TLC

VARIABLES
    config,     \* the snap's configuration store: [base, backends]
    fs,         \* the destination tree: path -> [content, mode] of each file
    registry,   \* names of the services the snap's service registry holds
    bodies,     \* shape of the output of each template body
    last,       \* what the latest hook or call did
    runs,       \* hooks run so far
    edits,      \* changes made to the configuration store so far
    probe       \* a backend context object built directly: [cls, name, cfg]

vars == <<config, fs, registry, bodies, last, runs, edits, probe>>

----------------------------------------------------------------------------
(* Bounds of the model *)

\* most backend instances the configuration store holds
MaxBackends == 2
\* most hooks (install, configure) in one behaviour
MaxRuns == 2
\* most changes of the configuration store in one behaviour
MaxEdits == 3

----------------------------------------------------------------------------
(* Values *)

Str(x) == [s |-> x]
Bool(x) == [b |-> x]
Num(x) == [i |-> x]
None == [none |-> "None"]
\* a str that the code builds from parts, or that holds an embedded
\* expression: kept as the sequence of its parts
Text(x) == [t |-> x]
\* a mapping held as a value
Dict(x) == [d |-> x]

IsStr(v) == DOMAIN v = {"s"} \/ DOMAIN v = {"t"}
IsPlain(v) == DOMAIN v = {"s"}
IsBool(v) == DOMAIN v = {"b"}
IsInt(v) == DOMAIN v = {"i"}
IsNone(v) == DOMAIN v = {"none"}
IsDict(v) == DOMAIN v = {"d"}

\* Python's bool(v): the truth value of a field value
Truthy(v) ==
    IF DOMAIN v = {"s"} THEN v.s # ""
    ELSE IF DOMAIN v = {"t"} THEN v.t # <<>>
    ELSE IF IsBool(v) THEN v.b
    ELSE IF IsInt(v) THEN v.i # 0
    ELSE IF IsDict(v) THEN DOMAIN v.d # {}
    ELSE FALSE

\* str.lower() on the strings of the model
LowerTable ==
    [FC |-> "fc", Fc |-> "fc", ISCSI |-> "iscsi", NVME |-> "nvme",
     NVMe |-> "nvme", ISER |-> "iser"]

Lower(x) == IF x \in DOMAIN LowerTable THEN LowerTable[x] ELSE x

\* d with the entries of e added, those of e winning (dict.update)
Update(d, e) ==
    [k \in DOMAIN d \cup DOMAIN e |-> IF k \in DOMAIN e THEN e[k] ELSE d[k]]

\* d without the keys of ks (dict.pop(k, None) for every k)
Without(d, ks) == [k \in DOMAIN d \ ks |-> d[k]]

\* dict.get(k, dflt)
Get(d, k, dflt) == IF k \in DOMAIN d THEN d[k] ELSE dflt

Range(q) == {q[n] : n \in 1..Len(q)}

\* the empty dict
EmptyDict == [k \in {} |-> k]

----------------------------------------------------------------------------
(* configuration.py: the schemas *)

\* the backend sections of Configuration, in the order of declaration
Kinds == <<"ceph", "lvm", "hitachi", "pure", "dellsc", "dellpowerstore">>

KindSet == Range(Kinds)

\* defaults of the fields BaseBackendConfiguration declares
BaseDefaults ==
    [image_volume_cache_enabled |-> None,
     image_volume_cache_max_size_gb |-> None,
     image_volume_cache_max_count |-> None,
     volume_dd_blocksize |-> Num(4096),
     driver_ssl_cert |-> None]

CephDefaults ==
    [rbd_exclusive_cinder_pool |-> Bool(TRUE),
     report_discard_supported |-> Bool(TRUE),
     rbd_flatten_volume_from_snapshot |-> Bool(FALSE),
     auth |-> Str("cephx")]

LvmDefaults ==
    [lvm_type |-> Str("auto"),
     lvm_mirrors |-> Num(0),
     lvm_conf_file |-> Str("/etc/lvm/lvm.conf"),
     lvm_suppress_fd_warnings |-> Bool(FALSE),
     lvm_share_target |-> Bool(FALSE),
     target_helper |-> Str("tgtadm"),
     target_protocol |-> Str("iscsi"),
     target_ip_address |-> Str("$my_ip"),
     target_port |-> Num(3260),
     target_prefix |-> Str("iqn.2010-10.org.openstack:"),
     target_secondary_ip_addresses |-> None,
     iscsi_iotype |-> Str("fileio"),
     iscsi_target_flags |-> Str(""),
     iscsi_write_cache |-> Str("on"),
     scst_target_driver |-> Str("iscsi"),
     scst_target_iqn_name |-> None,
     volume_clear |-> Str("zero"),
     volume_clear_size |-> Num(0),
     volume_clear_ionice |-> None,
     volume_dd_blocksize |-> Str("1M"),
     reserved_percentage |-> Num(0),
     max_over_subscription_ratio |-> Str("20.0"),
     volumes_dir |-> Text(<<"{{ snap_paths.common }}", "/lib/cinder/volumes">>)]

HitachiDefaults == [protocol |-> Str("fc")]

PureDefaults == [protocol |-> Str("fc")]

DellSCDefaults ==
    [protocol |-> Str("fc"),
     secondary_san_ip |-> None,
     secondary_san_login |-> None,
     secondary_san_password |-> None]

DellpowerstoreDefaults == [protocol |-> Str("fc")]

\* the defaults of every field of a kind's schema that has one
Defaults(kind) ==
    Update(BaseDefaults,
           CASE kind = "ceph" -> CephDefaults
             [] kind = "lvm" -> LvmDefaults
             [] kind = "hitachi" -> HitachiDefaults
             [] kind = "pure" -> PureDefaults
             [] kind = "dellsc" -> DellSCDefaults
             [] kind = "dellpowerstore" -> DellpowerstoreDefaults)

\* the fields of a kind's schema without a default
Required(kind) ==
    {"volume_backend_name"} \cup
    CASE kind = "ceph" ->
           {"mon_hosts", "rbd_pool", "rbd_user", "rbd_secret_uuid", "rbd_key"}
      [] kind = "lvm" -> {"volume_group"}
      [] kind = "hitachi" ->
           {"san_ip", "san_username", "san_password", "hitachi_storage_id",
            "hitachi_pools"}
      [] kind = "pure" -> {"san_ip", "pure_api_token"}
      [] kind = "dellsc" ->
           {"san_ip", "san_login", "san_password", "dell_sc_ssn",
            "enable_unsupported_driver"}
      [] kind = "dellpowerstore" -> {"san_ip", "san_login", "san_password"}

\* model_fields of a kind's schema
Declared(kind) == Required(kind) \cup DOMAIN Defaults(kind)

\* extra="allow": every schema but Ceph's, which keeps ParentConfig's default
ExtraAllowed(kind) == kind # "ceph"

\* the strings that pydantic.IPvAnyAddress accepts, among those of the model
IpAddresses == {"10.0.0.10", "10.0.0.11"}

\* the values of the protocol field that the kind's pattern matches
ProtocolPattern(kind) ==
    CASE kind = "pure" -> {"iscsi", "fc", "nvme"}
      [] kind \in {"hitachi", "dellsc", "dellpowerstore"} -> {"iscsi", "fc"}
      [] OTHER -> {}

\* the annotation and the Field constraints of one declared field
FieldOk(kind, f, v) ==
    CASE f = "san_ip" -> IsPlain(v) /\ v.s \in IpAddresses
      [] f = "secondary_san_ip" -> IsNone(v) \/ (IsPlain(v) /\ v.s \in IpAddresses)
      [] f = "enable_unsupported_driver" -> IsBool(v) /\ v.b = TRUE
      [] f = "protocol" -> IsPlain(v) /\ v.s \in ProtocolPattern(kind)
      [] f = "dell_sc_ssn" -> IsInt(v)
      [] f = "hitachi_storage_id" -> IsStr(v) \/ IsInt(v)
      [] f = "volume_dd_blocksize" ->
           IF kind = "lvm" THEN IsStr(v)
           ELSE IsStr(v) \/ (IsInt(v) /\ v.i >= 512)
      [] f = "lvm_type" -> IsPlain(v) /\ v.s \in {"default", "thin", "auto"}
      [] f = "target_helper" ->
           IsPlain(v) /\ v.s \in {"tgtadm", "lioadm", "scstadmin", "iscsictl", "fake"}
      [] f = "target_protocol" -> IsPlain(v) /\ v.s \in {"iscsi", "iser"}
      [] f = "iscsi_iotype" -> IsPlain(v) /\ v.s \in {"blockio", "fileio", "auto"}
      [] f = "iscsi_write_cache" -> IsPlain(v) /\ v.s \in {"on", "off"}
      [] f = "volume_clear" -> IsPlain(v) /\ v.s \in {"none", "zero"}
      [] f \in {"image_volume_cache_enabled"} -> IsNone(v) \/ IsBool(v)
      [] f \in {"image_volume_cache_max_size_gb", "image_volume_cache_max_count"} ->
           IsNone(v) \/ IsInt(v)
      [] f \in {"rbd_exclusive_cinder_pool", "report_discard_supported",
                "rbd_flatten_volume_from_snapshot", "lvm_suppress_fd_warnings",
                "lvm_share_target"} -> IsBool(v)
      [] f \in {"lvm_mirrors", "target_port", "volume_clear_size",
                "reserved_percentage"} -> IsInt(v)
      [] f \in {"driver_ssl_cert", "target_secondary_ip_addresses",
                "scst_target_iqn_name", "volume_clear_ionice",
                "secondary_san_login", "secondary_san_password"} ->
           IsNone(v) \/ IsStr(v)
      [] OTHER -> IsStr(v)

\* the schema with enable_unsupported_driver annotated bool, not Literal[True]
RecordValidAnyFlag(kind, cfg) ==
    /\ Required(kind) \subseteq DOMAIN cfg
    /\ \A f \in DOMAIN cfg \cap Declared(kind) :
          IF f = "enable_unsupported_driver" THEN IsBool(cfg[f])
          ELSE FieldOk(kind, f, cfg[f])

\* one backend record passes its kind's schema
RecordValid(kind, cfg) ==
    /\ Required(kind) \subseteq DOMAIN cfg
    /\ \A f \in DOMAIN cfg \cap Declared(kind) : FieldOk(kind, f, cfg[f])

\* key.replace("-", "_") on the keys of the model that hold a hyphen; the
\* other keys hold none and stay as they are
SnakeTable ==
    ("custom-option" :> "custom_option")
    @@ ("rbd-pool" :> "rbd_pool")
    @@ ("hitachi-mirror-driver-ssl-cert" :> "hitachi_mirror_driver_ssl_cert")

snake_key(key) == IF key \in DOMAIN SnakeTable THEN SnakeTable[key] ELSE key

\* convert_extra_fields: a key that is no declared field goes under its
\* snake_case form. A record of the model names a declared field by the
\* field's own name, which stands for its kebab-case alias, and an extra
\* field by the key as it was written.
convert_extra_fields(kind, data) ==
    LET extra == DOMAIN data \ Declared(kind)
    IN  [k \in (DOMAIN data \cap Declared(kind)) \cup {snake_key(x) : x \in extra} |->
           IF k \in DOMAIN data \cap Declared(kind) THEN data[k]
           ELSE data[CHOOSE x \in extra : snake_key(x) = k]]

\* model_dump() of a validated record: the declared fields, defaults filled
\* in, and the extra fields where the schema keeps them
ModelDump(kind, cfg) ==
    LET converted == convert_extra_fields(kind, cfg)
        kept == IF ExtraAllowed(kind) THEN DOMAIN converted
                ELSE DOMAIN converted \cap Declared(kind)
    IN  Update(Defaults(kind), [f \in kept |-> converted[f]])

----------------------------------------------------------------------------
(* configuration.py: the document and its validation *)

\* the sections of BaseConfiguration that have no default
RequiredSections ==
    [database |-> {"url"}, rabbitmq |-> {"url"}, cinder |-> {"project_id", "user_id"}]

SettingsDefaults == [debug |-> Bool(FALSE), enable_telemetry_notifications |-> Bool(FALSE)]

CinderDefaults ==
    [image_volume_cache_enabled |-> Bool(FALSE),
     image_volume_cache_max_size_gb |-> Num(0),
     image_volume_cache_max_count |-> Num(0),
     default_volume_type |-> None,
     cluster |-> None]

\* the non-backend sections pass BaseConfiguration
BaseValid(base) ==
    \A sec \in DOMAIN RequiredSections :
        sec \in DOMAIN base /\ RequiredSections[sec] \subseteq DOMAIN base[sec]

\* model_dump() of the non-backend sections
BaseDump(base) ==
    [settings |-> Update(SettingsDefaults, Get(base, "settings", EmptyDict)),
     database |-> base.database,
     rabbitmq |-> base.rabbitmq,
     cinder |-> Update(CinderDefaults, base.cinder)]

\* the backend records of one section, in the order the store holds them
SectionOf(doc, kind) == SelectSeq(doc.backends, LAMBDA e : e.kind = kind)

RECURSIVE ScanOrderFrom(_, _)
ScanOrderFrom(doc, n) ==
    IF n > Len(Kinds) THEN <<>>
    ELSE SectionOf(doc, Kinds[n]) \o ScanOrderFrom(doc, n + 1)

\* the records in the order validate_unique_backend_names walks them
ScanOrder(doc) == ScanOrderFrom(doc, 1)

\* the records of the sections that Configuration declares no field for:
\* model_validate passes them over (ParentConfig sets no `extra`)
Undeclared(doc) == SelectSeq(doc.backends, LAMBDA e : e.kind \notin KindSet)

\* the scan with the names remembered per section: a record is compared with
\* the records of its own kind only
RECURSIVE UniqueScanPerKind(_, _, _, _)
UniqueScanPerKind(es, n, backend_names, ceph_pools) ==
    IF n > Len(es) THEN [err |-> "none"]
    ELSE LET e == es[n]
             name == <<e.kind, e.cfg.volume_backend_name>>
             isCeph == e.kind = "ceph" /\ "rbd_pool" \in DOMAIN e.cfg
         IN  IF name \in backend_names
               THEN [err |-> "Duplicate backend name", kind |-> e.kind, key |-> e.key]
             ELSE IF isCeph /\ e.cfg.rbd_pool \in ceph_pools
               THEN [err |-> "Duplicate Ceph pool", kind |-> e.kind, key |-> e.key]
             ELSE UniqueScanPerKind(es, n + 1, backend_names \cup {name},
                             IF isCeph THEN ceph_pools \cup {e.cfg.rbd_pool}
                             ELSE ceph_pools)

\* the scan with the backend names compared and the pools left alone
RECURSIVE UniqueScanNamesOnly(_, _, _, _)
UniqueScanNamesOnly(es, n, backend_names, ceph_pools) ==
    IF n > Len(es) THEN [err |-> "none"]
    ELSE LET e == es[n]
             name == e.cfg.volume_backend_name
         IN  IF name \in backend_names
               THEN [err |-> "Duplicate backend name", kind |-> e.kind, key |-> e.key]
             ELSE UniqueScanNamesOnly(es, n + 1, backend_names \cup {name}, ceph_pools)

RECURSIVE UniqueScan(_, _, _, _)
UniqueScan(es, n, backend_names, ceph_pools) ==
    IF n > Len(es) THEN [err |-> "none"]
    ELSE LET e == es[n]
             name == e.cfg.volume_backend_name
             isCeph == e.kind = "ceph" /\ "rbd_pool" \in DOMAIN e.cfg
         IN  IF name \in backend_names
               THEN [err |-> "Duplicate backend name", kind |-> e.kind, key |-> e.key]
             ELSE IF isCeph /\ e.cfg.rbd_pool \in ceph_pools
               THEN [err |-> "Duplicate Ceph pool", kind |-> e.kind, key |-> e.key]
             ELSE UniqueScan(es, n + 1, backend_names \cup {name},
                             IF isCeph THEN ceph_pools \cup {e.cfg.rbd_pool}
                             ELSE ceph_pools)

\* the after-validator of Configuration on the validated records
validate_unique_backend_names(es) == UniqueScan(es, 1, {}, {})

\* Configuration.model_validate: the fields first, then the after-validator;
\* [ok |-> TRUE, cfg] or [ok |-> FALSE, cause]
ModelValidate(doc) ==
    IF ~BaseValid(doc.base)
        \/ \E n \in 1..Len(doc.backends) :
              /\ doc.backends[n].kind \in KindSet
              /\ ~RecordValid(doc.backends[n].kind, doc.backends[n].cfg)
      THEN [ok |-> FALSE, cause |-> [err |-> "field"]]
    ELSE LET es == ScanOrder(doc)
             dumped == [n \in 1..Len(es) |->
                          [kind |-> es[n].kind, key |-> es[n].key,
                           cfg |-> ModelDump(es[n].kind, es[n].cfg)]]
             scan == validate_unique_backend_names(dumped)
         IN  IF scan.err # "none" THEN [ok |-> FALSE, cause |-> scan]
             ELSE [ok |-> TRUE,
                   cfg |-> [base |-> BaseDump(doc.base), backends |-> dumped]]

\* CinderVolume.get_config: a ValidationError becomes a CinderError
get_config(doc) ==
    LET v == ModelValidate(doc)
    IN  IF v.ok THEN v
        ELSE [ok |-> FALSE, error |-> "Invalid configuration", cause |-> v.cause]

----------------------------------------------------------------------------
(* context.py: the backend context classes *)

\* the subclasses of BaseBackendContext that context.py defines
BackendContextClasses ==
    {"BaseBackendContext", "CephBackendContext", "LvmBackendContext",
     "HitachiBackendContext", "PureBackendContext", "DellscBackendContext",
     "DellpowerstoreBackendContext"}

\* klass.mro(): the class, its base, and the classes above BaseBackendContext
Mro(cls) ==
    IF cls = "BaseBackendContext"
      THEN <<"BaseBackendContext", "Context", "ABC", "object">>
    ELSE <<cls, "BaseBackendContext", "Context", "ABC", "object">>

\* klass._hidden_keys: the attribute the class sets, else the inherited one
HiddenKeysAttr(cls) ==
    CASE cls = "CephBackendContext" -> {"rbd_key", "keyring", "mon_hosts", "auth"}
      [] cls = "HitachiBackendContext" -> {"protocol", "hitachi_mirror_driver_ssl_cert"}
      [] cls \in {"PureBackendContext", "DellscBackendContext",
                  "DellpowerstoreBackendContext"} -> {"protocol"}
      [] OTHER -> {"driver_ssl_cert"}

\* the hidden keys of the class alone, those of its bases left out
hidden_keys_own_class(cls) == HiddenKeysAttr(cls)

\* BaseBackendContext.hidden_keys: the keys of every backend class of the mro
hidden_keys(cls) ==
    UNION {HiddenKeysAttr(k) : k \in Range(Mro(cls)) \cap BackendContextClasses}

\* supports_cluster as the constructor of the class sets it
SupportsCluster(cls) ==
    cls \in {"BaseBackendContext", "CephBackendContext", "PureBackendContext"}

\* the constructor: namespace and backend_name are both its first argument
NewContext(cls, backend_name, backend_config) ==
    [cls |-> cls,
     namespace |-> backend_name,
     backend_name |-> backend_name,
     backend_config |-> backend_config,
     supports_cluster |-> SupportsCluster(cls)]

SnapCommonExpr == "{{ snap_paths.common }}"

\* an embedded expression that is not closed
MalformedExpr == "{{ snap_paths.common"

\* BaseBackendContext.context
BaseContext(c) ==
    IF Truthy(Get(c.backend_config, "driver_ssl_cert", None))
      THEN Update(c.backend_config,
                  [driver_ssl_cert_path |->
                       Text(<<SnapCommonExpr, "/", "etc/cinder/cinder.conf.d", "/">>
                            \o c.backend_name \o <<".pem">>),
                   driver_ssl_cert_verify |-> Bool(TRUE)])
    ELSE c.backend_config

\* CephBackendContext.keyring and ceph_conf: file names
CephKeyring(c) == <<"ceph.client.">> \o c.backend_name \o <<".keyring">>

CephConf(c) == c.backend_name \o <<".conf">>

\* CephBackendContext.context
CephContext(c) ==
    Update(BaseContext(c),
           [volume_driver |-> Str("cinder.volume.drivers.rbd.RBDDriver"),
            rbd_ceph_conf |-> Text(<<SnapCommonExpr, "/etc/ceph/">> \o CephConf(c)),
            keyring |-> Text(CephKeyring(c))])

\* str.startswith("nvmet") on the strings of the model
StartsWithNvmet(x) == x \in {"nvmet", "nvmet_tcp", "nvmet_rdma"}

\* LvmBackendContext.context
LvmContext(c) ==
    LET context == Update(BaseContext(c),
                     [volume_driver |-> Str("cinder.volume.drivers.lvm.LVMVolumeDriver")])
        target_protocol == Lower(Get(context, "target_protocol", Str("iscsi")).s)
        target_helper == Get(context, "target_helper", None)
    IN  IF StartsWithNvmet(target_protocol)
           /\ (IsNone(target_helper) \/ target_helper = Str("tgtadm"))
          THEN Update(context, [target_helper |-> Str("nvmet")])
        ELSE context

\* HitachiBackendContext.context
HitachiContext(c) ==
    LET proto == Lower(Get(c.backend_config, "protocol", Str("FC")).s)
        c1 == Update(BaseContext(c),
                [volume_driver |->
                   IF proto = "fc"
                     THEN Str("cinder.volume.drivers.hitachi.hbsd_fc.HBSDFCDriver")
                   ELSE Str("cinder.volume.drivers.hitachi.hbsd_iscsi.HBSDISCSIDriver")])
        c2 == IF "chap_username" \in DOMAIN c1
                THEN Update(c1, [use_chap_auth |-> Bool(TRUE)]) ELSE c1
        c3 == IF "hitachi_mirror_auth_username" \in DOMAIN c2
                THEN Update(c2, [hitachi_mirror_use_chap_auth |-> Bool(TRUE)]) ELSE c2
    IN  IF Truthy(Get(c3, "hitachi_mirror_driver_ssl_cert", None))
          THEN Update(c3,
                 [hitachi_mirror_ssl_cert_path |->
                      Text(<<SnapCommonExpr, "/", "etc/cinder/cinder.conf.d", "/">>
                           \o c.backend_name \o <<"_mirror", ".pem">>),
                  hitachi_mirror_ssl_cert_verify |-> Bool(TRUE)])
        ELSE c3

\* the driver_classes table of PureBackendContext.context
PureDriverClasses ==
    [iscsi |-> "cinder.volume.drivers.pure.PureISCSIDriver",
     fc |-> "cinder.volume.drivers.pure.PureFCDriver",
     nvme |-> "cinder.volume.drivers.pure.PureNVMEDriver"]

\* the Pure context with the protocol looked up as it is written
PureContextNoLower(c) ==
    LET protocol == Get(c.backend_config, "protocol", Str("fc")).s
    IN  Update(BaseContext(c),
               [volume_driver |->
                    Str(Get(PureDriverClasses, protocol, PureDriverClasses["fc"]))])

\* PureBackendContext.context
PureContext(c) ==
    LET protocol == Lower(Get(c.backend_config, "protocol", Str("fc")).s)
    IN  Update(BaseContext(c),
               [volume_driver |->
                    Str(Get(PureDriverClasses, protocol, PureDriverClasses["fc"]))])

\* the driver_classes table of DellscBackendContext.context
DellscDriverClasses ==
    [iscsi |-> "cinder.volume.drivers.dell_emc.sc.storagecenter_iscsi.SCISCSIDriver",
     fc |-> "cinder.volume.drivers.dell_emc.sc.storagecenter_fc.SCFCDriver"]

\* DellscBackendContext.context
DellscContext(c) ==
    LET protocol == Lower(Get(c.backend_config, "protocol", Str("fc")).s)
    IN  Update(BaseContext(c),
               [volume_driver |->
                    Str(Get(DellscDriverClasses, protocol, DellscDriverClasses["fc"]))])

\* DellpowerstoreBackendContext.context
DellpowerstoreContext(c) ==
    Update(BaseContext(c),
           [volume_driver |->
                Str("cinder.volume.drivers.dell_emc.powerstore.driver.PowerStoreDriver"),
            storage_protocol |->
                Str(Lower(Get(c.backend_config, "protocol", Str("fc")).s))])

\* context() of a backend context object, by its class
Context(c) ==
    CASE c.cls = "CephBackendContext" -> CephContext(c)
      [] c.cls = "LvmBackendContext" -> LvmContext(c)
      [] c.cls = "HitachiBackendContext" -> HitachiContext(c)
      [] c.cls = "PureBackendContext" -> PureContext(c)
      [] c.cls = "DellscBackendContext" -> DellscContext(c)
      [] c.cls = "DellpowerstoreBackendContext" -> DellpowerstoreContext(c)
      [] OTHER -> BaseContext(c)

\* BaseBackendContext.cinder_context: the hidden keys popped, None dropped
cinder_context(c) ==
    LET context == Without(Context(c), hidden_keys(c.cls))
    IN  [k \in {x \in DOMAIN context : ~IsNone(context[x])} |-> context[k]]

\* CinderBackendContexts.__init__ without the check of the missing contexts
CinderBackendContextsUnchecked(enabled_backends, contexts) ==
    IF enabled_backends = <<>>
      THEN [ok |-> FALSE, error |-> "At least one backend must be enabled"]
    ELSE [ok |-> TRUE,
          value |-> [enabled_backends |-> enabled_backends, contexts |-> contexts]]

\* CinderBackendContexts.__init__: the aggregate, or the CinderError it
\* raises; the mapping of contexts is held in its order, each context under
\* its own name, as the registry and the tests key it
CinderBackendContexts(enabled_backends, contexts) ==
    IF enabled_backends = <<>>
      THEN [ok |-> FALSE, error |-> "At least one backend must be enabled"]
    ELSE IF Range(enabled_backends) \ {c.namespace : c \in Range(contexts)} # {}
      THEN [ok |-> FALSE, error |-> "Context missing configuration for backends",
            missing |-> Range(enabled_backends) \ {c.namespace : c \in Range(contexts)}]
    ELSE [ok |-> TRUE,
          value |-> [enabled_backends |-> enabled_backends, contexts |-> contexts]]

\* CinderBackendContexts.context with one clustering member being enough
AggregateContextAnyMember(agg) ==
    [enabled_backends |-> agg.enabled_backends,
     cluster_ok |-> \E c \in Range(agg.contexts) : c.supports_cluster,
     contexts |-> [name \in {c.backend_name : c \in Range(agg.contexts)} |->
                     cinder_context(
                       CHOOSE c \in Range(agg.contexts) : c.backend_name = name)]]

\* CinderBackendContexts.context: the backend-aggregate section
AggregateContext(agg) ==
    [enabled_backends |-> agg.enabled_backends,
     cluster_ok |-> \A c \in Range(agg.contexts) : c.supports_cluster,
     contexts |-> [name \in {c.backend_name : c \in Range(agg.contexts)} |->
                     cinder_context(
                       CHOOSE c \in Range(agg.contexts) : c.backend_name = name)]]

----------------------------------------------------------------------------
(* cinder_volume.py: the registry of backend contexts *)

\* "".join(part.capitalize() for part in field_name.split("_")) + "BackendContext"
ContextClassName(field_name) ==
    CASE field_name = "ceph" -> "CephBackendContext"
      [] field_name = "lvm" -> "LvmBackendContext"
      [] field_name = "hitachi" -> "HitachiBackendContext"
      [] field_name = "pure" -> "PureBackendContext"
      [] field_name = "dellsc" -> "DellscBackendContext"
      [] field_name = "dellpowerstore" -> "DellpowerstoreBackendContext"

\* backend_ctxs[name] = ctx on a dict held as the sequence of its values: a
\* key already present keeps its place and takes the new value
DictPut(ctxs, c) ==
    IF \E n \in 1..Len(ctxs) : ctxs[n].namespace = c.namespace
      THEN [n \in 1..Len(ctxs) |->
              IF ctxs[n].namespace = c.namespace THEN c ELSE ctxs[n]]
    ELSE Append(ctxs, c)

RECURSIVE Discover(_, _, _)
Discover(es, n, backend_ctxs) ==
    IF n > Len(es) THEN backend_ctxs
    ELSE LET e == es[n]
             context_class_name == ContextClassName(e.kind)
         IN  IF context_class_name \in BackendContextClasses
               THEN Discover(es, n + 1,
                      DictPut(backend_ctxs, NewContext(context_class_name, e.key, e.cfg)))
             ELSE Discover(es, n + 1, backend_ctxs)

\* GenericCinderVolume.backend_contexts on the document the store holds
backend_contexts(doc) ==
    LET got == get_config(doc)
    IN  IF ~got.ok THEN got
        ELSE LET backend_ctxs == Discover(got.cfg.backends, 1, <<>>)
             IN  CinderBackendContexts(
                     [n \in 1..Len(backend_ctxs) |-> backend_ctxs[n].namespace],
                     backend_ctxs)

----------------------------------------------------------------------------
(* The configuration store and the documents of the model *)

\* instance keys: a plain one, and one that ends as a derived file name does
Keys == {<<"h">>, <<"h", "_mirror">>}

\* declared backend names (volume-backend-name)
Names == {"n1", "n2"}

\* pool identifiers of Ceph records (rbd-pool)
Pools == {"p1", "p2"}

GoodBase ==
    [settings |-> [debug |-> Bool(FALSE)],
     database |-> [url |-> Str("mysql+pymysql://cinder:pw@10.0.0.10/cinder")],
     rabbitmq |-> [url |-> Str("rabbit://cinder:pw@10.0.0.11:5672/openstack")],
     cinder |-> [project_id |-> Str("proj-id"), user_id |-> Str("user-id")]]

\* a record of the kind with every required field
Sample(kind, name, pool) ==
    Update([volume_backend_name |-> Str(name)],
      CASE kind = "ceph" ->
             [mon_hosts |-> Str("10.0.0.1"), rbd_pool |-> Str(pool),
              rbd_user |-> Str("cinder"), rbd_secret_uuid |-> Str("uuid"),
              rbd_key |-> Str("secret-key")]
        [] kind = "lvm" -> [volume_group |-> Str("cinder-volumes")]
        [] kind = "hitachi" ->
             [san_ip |-> Str("10.0.0.10"), san_username |-> Str("admin"),
              san_password |-> Str("secret"), hitachi_storage_id |-> Num(45000),
              hitachi_pools |-> Str("pool0")]
        [] kind = "pure" ->
             [san_ip |-> Str("10.0.0.10"), pure_api_token |-> Str("token")]
        [] kind = "dellsc" ->
             [san_ip |-> Str("10.0.0.10"), san_login |-> Str("admin"),
              san_password |-> Str("secret"), dell_sc_ssn |-> Num(64702),
              enable_unsupported_driver |-> Bool(TRUE)]
        [] kind = "dellpowerstore" ->
             [san_ip |-> Str("10.0.0.10"), san_login |-> Str("admin"),
              san_password |-> Str("secret")])

\* ways a record differs from the sample of its kind
Variants == {"plain", "cert", "mirror", "nossl", "broken", "pool", "malformed", "nested"}

Vary(kind, cfg, variant) ==
    CASE variant = "cert" -> Update(cfg, [driver_ssl_cert |-> Str("cert-content")])
      [] variant = "mirror" ->
           Update(cfg, "hitachi-mirror-driver-ssl-cert" :> Str("mirror-cert"))
      [] variant = "nossl" -> Update(cfg, [driver_ssl_cert |-> Str("")])
      [] variant = "pool" -> Update(cfg, "rbd-pool" :> Str("p1"))
      [] variant = "nested" ->
           Update(cfg, "custom-option" :>
             Dict([path |-> Text(<<SnapCommonExpr, "/x">>),
                   size |-> Num(1),
                   inner |-> Dict([path |-> Text(<<SnapCommonExpr, "/y">>),
                                   plain |-> Str("z"),
                                   flag |-> Bool(TRUE)])]))
      [] variant = "malformed" ->
           Update(cfg, "custom-option" :> Text(<<"/srv/", MalformedExpr>>))
      [] variant = "broken" ->
           Without(cfg, IF kind = "ceph" THEN {"rbd_key"}
                        ELSE IF kind = "lvm" THEN {"volume_group"}
                        ELSE {"san_ip"})
      [] OTHER -> cfg

Entry(kind, key, name, pool, variant) ==
    [kind |-> kind, key |-> key, cfg |-> Vary(kind, Sample(kind, name, pool), variant)]

\* the instance of an `lvm-san` section, a section Configuration does not
\* declare
LvmSanEntry ==
    [kind |-> "lvm_san", key |-> <<"h">>,
     cfg |-> [volume_backend_name |-> Str("n2"),
              volume_group |-> Str("cinder-volumes"),
              iscsi_ip_address |-> Str("10.20.30.40")]]

\* the records the registry's specification draws from: every kind, every
\* key, every name, every pool of a Ceph record, valid or broken
RegistryEntries ==
    {Entry(kind, key, name, pool, variant) :
        kind \in KindSet, key \in Keys, name \in Names,
        pool \in Pools, variant \in {"plain", "broken"}}
    \cup {Entry("lvm", key, name, "p1", "pool") : key \in Keys, name \in Names}
    \cup {LvmSanEntry}

\* `snap set <kind>.<key>=...`: the record is added to its section, or takes
\* the place of the record that has its key
SnapSet(e) ==
    /\ edits < MaxEdits
    /\ LET held == \E n \in 1..Len(config.backends) :
                     config.backends[n].kind = e.kind /\ config.backends[n].key = e.key
           put == IF held
                    THEN [n \in 1..Len(config.backends) |->
                            IF config.backends[n].kind = e.kind
                               /\ config.backends[n].key = e.key
                              THEN e ELSE config.backends[n]]
                  ELSE Append(config.backends, e)
       IN  /\ held \/ Len(config.backends) < MaxBackends
           /\ config' = [config EXCEPT !.backends =
                            ScanOrder([config EXCEPT !.backends = put])
                            \o Undeclared([config EXCEPT !.backends = put])]
    /\ edits' = edits + 1
    /\ UNCHANGED <<fs, registry, bodies, last, runs, probe>>

\* `snap unset <kind>.<key>`
SnapUnset(n) ==
    /\ edits < MaxEdits
    /\ n \in 1..Len(config.backends)
    /\ config' = [config EXCEPT !.backends =
                     SubSeq(config.backends, 1, n - 1)
                     \o SubSeq(config.backends, n + 1, Len(config.backends))]
    /\ edits' = edits + 1
    /\ UNCHANGED <<fs, registry, bodies, last, runs, probe>>

\* one call of GenericCinderVolume.backend_contexts on a fresh object
Resolve ==
    /\ last' = [op |-> "backend_contexts", doc |-> config,
                result |-> backend_contexts(config)]
    /\ UNCHANGED <<config, fs, registry, bodies, runs, edits, probe>>

NoProbe == [cls |-> "none"]

InitRegistry ==
    /\ config = [base |-> GoodBase, backends |-> <<>>]
    /\ fs = <<>>
    /\ registry = {}
    /\ bodies = <<>>
    /\ last = [op |-> "none"]
    /\ runs = 0
    /\ edits = 0
    /\ probe = NoProbe

NextRegistry ==
    \/ \E e \in RegistryEntries : SnapSet(e)
    \/ \E n \in 1..MaxBackends : SnapUnset(n)
    \/ Resolve

\* the registry alone: documents of every kind are put together and resolved
SpecRegistry == InitRegistry /\ [][NextRegistry]_vars

----------------------------------------------------------------------------
(* Records and context objects built directly, as the unit tests build them *)

Absent == [absent |-> TRUE]

\* values a field of a directly built record or context takes
ProbeValues ==
    [protocol |-> {Absent, Str("fc"), Str("iscsi"), Str("nvme"), Str("NVME"),
                   Str("FC"), Str("sas")},
     driver_ssl_cert |-> {Absent, None, Str(""), Str("cert-content")},
     rbd_key |-> {Absent, Str("other-key")},
     keyring |-> {Str("my.keyring")},
     mon_hosts |-> {Str("10.0.0.2")},
     auth |-> {Str("none")},
     hitachi_mirror_driver_ssl_cert |-> {Str(""), Str("mirror-cert")},
     chap_username |-> {Str("chap")},
     image_volume_cache_enabled |-> {None, Bool(TRUE)},
     target_protocol |-> {Str("iser"), Str("nvmet_tcp")},
     target_helper |-> {Absent, None, Str("lioadm")},
     volume_driver |-> {Str("custom.Driver")},
     enable_unsupported_driver |-> {Absent, Bool(FALSE), Bool(TRUE)},
     dell_sc_ssn |-> {Absent, Num(64702)},
     san_ip |-> {Str("not-an-address")},
     volume_dd_blocksize |-> {Num(256), Num(512)}]
    @@ ("custom-option" :> {Str("on")})

OneOverride ==
    UNION {{f :> v : v \in ProbeValues[f]} : f \in DOMAIN ProbeValues}

\* changes of the fields that most of the context classes read
MainOverride ==
    UNION {{f :> v : v \in ProbeValues[f]} :
             f \in {"protocol", "driver_ssl_cert", "enable_unsupported_driver"}}

\* changes of at most two fields
ProbeOverrides == {EmptyDict} \cup {a @@ b : a \in OneOverride, b \in MainOverride}

\* cfg with the fields of o set, or removed where o says Absent
Apply(cfg, o) ==
    LET u == Update(cfg, o)
    IN  [k \in {x \in DOMAIN u : u[x] # Absent} |-> u[k]]

\* the kind whose section a context class serves
KindOfClass(cls) ==
    CHOOSE kind \in KindSet : ContextClassName(kind) = cls

\* the mappings a context object is built on: the dump of a validated
\* record, or nothing but the name, with some fields changed
ProbeConfigs(cls) ==
    LET start == {[volume_backend_name |-> Str("n1")]} \cup
                 IF cls = "BaseBackendContext" THEN {}
                 ELSE {ModelDump(KindOfClass(cls), Sample(KindOfClass(cls), "n1", "p1"))}
    IN  {Apply(cfg, o) : cfg \in start, o \in ProbeOverrides}

\* context_class(name, config)
Construct(cls, name, cfg) ==
    /\ probe = NoProbe /\ last.op = "none"
    /\ probe' = NewContext(cls, name, cfg)
    /\ last' = [op |-> "construct"]
    /\ UNCHANGED <<config, fs, registry, bodies, runs, edits>>

\* probe.context()
CallContext ==
    /\ probe # NoProbe
    /\ last' = [op |-> "context", result |-> Context(probe)]
    /\ UNCHANGED <<config, fs, registry, bodies, runs, edits, probe>>

\* probe.cinder_context()
CallCinderContext ==
    /\ probe # NoProbe
    /\ last' = [op |-> "cinder_context", result |-> cinder_context(probe)]
    /\ UNCHANGED <<config, fs, registry, bodies, runs, edits, probe>>

\* <Kind>Configuration(**cfg): one record against the schema of its kind
ValidateRecord(kind, cfg) ==
    /\ probe = NoProbe /\ last.op = "none"
    /\ last' = [op |-> "validate_record", kind |-> kind, cfg |-> cfg,
                ok |-> RecordValid(kind, cfg),
                dump |-> IF RecordValid(kind, cfg) THEN ModelDump(kind, cfg)
                         ELSE EmptyDict]
    /\ probe' = NoProbe
    /\ UNCHANGED <<config, fs, registry, bodies, runs, edits>>

\* the keys a directly built aggregate is asked to enable
EnabledKeys == Keys \cup {<<"z">>}

\* lists of at most two enabled keys
EnabledLists ==
    {<<>>} \cup {<<a>> : a \in EnabledKeys} \cup {<<a, b>> : a, b \in EnabledKeys}

\* a context object of the class under the key, on a record of the name
MemberContext(cls, key, name) ==
    NewContext(cls, key, [volume_backend_name |-> Str(name)])

\* mappings of at most two context objects, each under its own key
MemberMappings ==
    {<<>>}
    \cup {<<MemberContext(cls, key, "n1")>> : cls \in BackendContextClasses, key \in Keys}
    \cup {<<MemberContext(a, <<"h">>, "n1"), MemberContext(b, <<"h", "_mirror">>, "n2")>> :
             a, b \in BackendContextClasses}

\* CinderBackendContexts(enabled_backends, contexts)
BuildAggregate(enabled_backends, contexts) ==
    /\ probe = NoProbe /\ last.op = "none"
    /\ last' = [op |-> "aggregate", enabled |-> enabled_backends,
                contexts |-> contexts,
                result |-> CinderBackendContexts(enabled_backends, contexts)]
    /\ UNCHANGED <<config, fs, registry, bodies, runs, edits, probe>>

\* cbc.context() of the aggregate just built
CallAggregateContext ==
    /\ last.op = "aggregate" /\ last.result.ok
    /\ last' = [op |-> "aggregate_context", contexts |-> last.contexts,
                result |-> AggregateContext(last.result.value)]
    /\ UNCHANGED <<config, fs, registry, bodies, runs, edits, probe>>

NextProbe ==
    \/ \E cls \in BackendContextClasses, name \in Keys :
          \E cfg \in ProbeConfigs(cls) : Construct(cls, name, cfg)
    \/ CallContext
    \/ CallCinderContext
    \/ \E enabled_backends \in EnabledLists, contexts \in MemberMappings :
          BuildAggregate(enabled_backends, contexts)
    \/ CallAggregateContext
    \/ \E kind \in KindSet, o \in ProbeOverrides :
          ValidateRecord(kind, Apply(Sample(kind, "n1", "p1"), o))

\* the schemas and the context classes alone, on directly built inputs
SpecProbe == InitRegistry /\ [][NextProbe]_vars

----------------------------------------------------------------------------
(* The template descriptors, the template bodies and the services *)

ETC_CINDER == "etc/cinder"

ETC_CINDER_D_CONF_DIR == "etc/cinder/cinder.conf.d"

ETC_CEPH == "etc/ceph"

\* template.CommonTemplate(filename, dest, template_name, mode, conditionals)
CommonTemplate(filename, dest, template_name, mode, conditionals) ==
    [filename |-> filename, dest |-> dest, location |-> "common",
     template_name |-> template_name, mode |-> mode, conditionals |-> conditionals]

\* Template.rel_path: the destination of the template below its location
rel_path(tpl) == [dir |-> tpl.dest, name |-> tpl.filename]

\* Template.template: the name the body is looked up under
TemplateSource(tpl) == tpl.template_name

\* services.services(): the dependent services and the files each watches
Services ==
    <<[name |-> "cinder-volume",
       configuration_files |-> {[dir |-> ETC_CINDER, name |-> <<"cinder.conf">>]}],
      [name |-> "cinder-backup",
       configuration_files |->
           {[dir |-> ETC_CINDER_D_CONF_DIR, name |-> <<"x", ".conf">>]}]>>

ServiceNames == {Services[n].name : n \in 1..Len(Services)}

\* the files of the template directories
TemplateFiles ==
    {"cinder.conf.j2", "rootwrap.conf.j2", "backend.conf.j2", "backend.pem.j2",
     "ceph.conf.j2", "ceph.client.keyring.j2", "hitachi_backend.pem.j2"}

\* what a body puts out: nothing, text that ends with a newline, text that
\* does not, or text that ends with a newline and an empty line
Shapes == {"empty", "newline", "bare", "blank"}

NL == [nl |-> TRUE]

\* tpl.render(**context): the output of the body found under `file`, as a
\* sequence of pieces; the text is as the body and the namespace make it
Render(file, context) ==
    CASE bodies[file] = "empty" -> <<>>
      [] bodies[file] = "newline" -> <<[body |-> file, context |-> context], NL>>
      [] bodies[file] = "blank" -> <<[body |-> file, context |-> context], NL, NL>>
      [] OTHER -> <<[body |-> file, context |-> context]>>

----------------------------------------------------------------------------
(* context.py: the templates and directories of a backend context *)

\* backend_variable_set(backend, *var): a conditional, held as its arguments
backend_variable_set(backend, var) == [backend |-> backend, var |-> var]

\* the conditional applied to a namespace
Conditional(cond, context) ==
    LET ns_context ==
            Get(Get(Get(context, "cinder_backends", EmptyDict), "contexts", EmptyDict),
                cond.backend, EmptyDict)
    IN  \A v \in cond.var : Truthy(Get(ns_context, v, None))

\* BaseBackendContext.template_files
BaseTemplateFiles(c) ==
    <<CommonTemplate(c.backend_name \o <<".conf">>, ETC_CINDER_D_CONF_DIR,
                     "backend.conf.j2", "default", <<>>),
      CommonTemplate(c.backend_name \o <<".pem">>, ETC_CINDER_D_CONF_DIR,
                     "backend.pem.j2", "default",
                     <<backend_variable_set(c.backend_name, {"driver_ssl_cert_path"})>>)>>

\* CephBackendContext.template_files
CephTemplateFiles(c) ==
    BaseTemplateFiles(c) \o
    <<CommonTemplate(CephConf(c), ETC_CEPH, "ceph.conf.j2", "default", <<>>),
      CommonTemplate(CephKeyring(c), ETC_CEPH, "ceph.client.keyring.j2", "0o600", <<>>)>>

\* HitachiBackendContext.template_files
HitachiTemplateFiles(c) ==
    BaseTemplateFiles(c) \o
    <<CommonTemplate(c.backend_name \o <<"_mirror", ".pem">>, ETC_CINDER_D_CONF_DIR,
                     "hitachi_backend.pem.j2", "default",
                     <<backend_variable_set(c.backend_name,
                                            {"hitachi_mirror_ssl_cert_path"})>>)>>

\* template_files() of a backend context object, by its class
template_files(c) ==
    CASE c.cls = "CephBackendContext" -> CephTemplateFiles(c)
      [] c.cls = "HitachiBackendContext" -> HitachiTemplateFiles(c)
      [] OTHER -> BaseTemplateFiles(c)

\* CinderVolume.template_files: the global templates
GlobalTemplateFiles ==
    <<CommonTemplate(<<"cinder.conf">>, ETC_CINDER, "cinder.conf", "default", <<>>),
      CommonTemplate(<<"rootwrap.conf">>, ETC_CINDER, "rootwrap.conf", "default", <<>>)>>

----------------------------------------------------------------------------
(* cinder_volume.py: the render namespace *)

\* the directory snap.paths.common stands for
SnapCommon == "/var/snap/cinder-volume/common"

\* SnapPathContext.context
SnapPaths == [common |-> SnapCommon]

\* jinja2.Template(value).render(**context) of one str value: the embedded
\* reference to the common path is resolved
RenderString(context, v) ==
    IF DOMAIN v = {"t"}
      THEN Text([n \in 1..Len(v.t) |->
                   IF v.t[n] = SnapCommonExpr THEN context.snap_paths.common
                   ELSE v.t[n]])
    ELSE v

\* jinja2.Template(value) raises TemplateSyntaxError on the str value
RaisesSyntaxError(v) == DOMAIN v = {"t"} /\ MalformedExpr \in Range(v.t)

\* _render_specific_backend_configs raises on the value: on a str that
\* cannot be parsed, or on a value of a mapping
RECURSIVE ValueRaises(_)
ValueRaises(v) ==
    IF IsStr(v) THEN RaisesSyntaxError(v)
    ELSE IF IsDict(v) THEN \E k \in DOMAIN v.d : ValueRaises(v.d[k])
    ELSE FALSE

\* _render_specific_backend_configs raises on the aggregate section
RenderRaises(section) ==
    \E name \in DOMAIN section.contexts :
       \E k \in DOMAIN section.contexts[name] :
          ValueRaises(section.contexts[name][k])

\* _render_specific_backend_configs on one value: a str is rendered, the
\* values of a mapping are walked, any other value is passed on
RECURSIVE RenderValue(_, _)
RenderValue(context, v) ==
    IF IsStr(v) THEN RenderString(context, v)
    ELSE IF IsDict(v) THEN Dict([k \in DOMAIN v.d |-> RenderValue(context, v.d[k])])
    ELSE v

\* _render_specific_backend_configs with the mappings passed on as they are
RenderBackendConfigsFlat(context, section) ==
    [enabled_backends |-> section.enabled_backends,
     cluster_ok |-> section.cluster_ok,
     contexts |-> [name \in DOMAIN section.contexts |->
                     [k \in DOMAIN section.contexts[name] |->
                        LET v == section.contexts[name][k]
                        IN  IF IsStr(v) THEN RenderString(context, v) ELSE v]]]

\* _render_specific_backend_configs on the aggregate section: the str values
\* of every backend's mapping rendered, at any depth, the other values
\* passed on
RenderBackendConfigs(context, section) ==
    [enabled_backends |-> section.enabled_backends,
     cluster_ok |-> section.cluster_ok,
     contexts |-> [name \in DOMAIN section.contexts |->
                     [k \in DOMAIN section.contexts[name] |->
                        RenderValue(context, section.contexts[name][k])]]]

\* model_dump() of the validated document: one section per field
DocumentDump(cfg) ==
    Update(cfg.base,
      [kind \in KindSet |->
         LET es == SelectSeq(cfg.backends, LAMBDA e : e.kind = kind)
         IN  [key \in {es[n].key : n \in 1..Len(es)} |->
                (CHOOSE e \in Range(es) : e.key = key).cfg]])

\* render_context: the path section and one section per field of the document
render_context(cfg) == Update([snap_paths |-> SnapPaths], DocumentDump(cfg))

----------------------------------------------------------------------------
(* cinder_volume.py: rendering one template *)

\* file_name.removesuffix(".j2")
RemoveSuffixJ2(name) ==
    IF Len(name) > 0 /\ name[Len(name)] = ".j2"
      THEN SubSeq(name, 1, Len(name) - 1) ELSE name

\* hash() of a text; two texts have one hash only if they are equal
HashOf(text) == [hash |-> text]

\* env.get_template with the fallback: the file of the body, or "none"
FindTemplate(template_file) ==
    IF template_file \in DOMAIN bodies THEN template_file
    ELSE IF template_file = "cinder.conf" /\ "cinder.conf.j2" \in DOMAIN bodies
      THEN "cinder.conf.j2"
    ELSE IF template_file = "rootwrap.conf" /\ "rootwrap.conf.j2" \in DOMAIN bodies
      THEN "rootwrap.conf.j2"
    ELSE "none"

\* the trailing new line that _process_template ensures
EnsureNewline(rendered) ==
    IF Len(rendered) > 0 /\ rendered[Len(rendered)] # NL
      THEN Append(rendered, NL) ELSE rendered

\* no call of the filesystem fails
NoFault == [op |-> "none"]

\* a run in progress: the tree, the templates modified so far, the events so
\* far, and the exception that ended it ("none" while it goes on)
StartRun(tree) ==
    [fs |-> tree, modified |-> <<>>, log |-> <<>>, raised |-> "none",
     contexts |-> <<>>, fault |-> NoFault]

\* a run during which the calls of one kind fail on one directory
StartRunUnderFault(tree, fault) == [StartRun(tree) EXCEPT !.fault = fault]

CINDER_CTX_KEY == "ctx_cinder_name"

BACKEND_CTX_KEY == "ctx_backend"

\* one call of _process_template as the run's log keeps it: the destination,
\* whether every conditional held, whether the file was there before and is
\* there after, what the call did and what it returned
Processed(st, tpl, context, dest_file, conds, tree, outcome, returned, raw) ==
    [st EXCEPT
       !.fs = tree,
       !.modified = IF returned THEN Append(@, tpl) ELSE @,
       !.raised = IF outcome \in {"TemplateNotFound", "OSError"} THEN outcome ELSE @,
       !.log = Append(@, [ev |-> "process", path |-> dest_file, tpl |-> tpl,
                          pass |-> Get(context, CINDER_CTX_KEY, <<>>),
                          reserved |-> DOMAIN context
                                         \cap {CINDER_CTX_KEY, BACKEND_CTX_KEY},
                          ctx_backend |-> Get(context, BACKEND_CTX_KEY, None),
                          conds |-> conds,
                          existed |-> dest_file \in DOMAIN st.fs,
                          exists |-> dest_file \in DOMAIN tree,
                          outcome |-> outcome,
                          returned |-> returned,
                          raw |-> raw,
                          rendered |-> EnsureNewline(raw),
                          after |-> IF dest_file \in DOMAIN tree THEN tree[dest_file]
                                    ELSE None])]

\* _process_template without the removal: a template whose conditional fails
\* is skipped and its destination left as it is
ProcessTemplateNoRemoval(st, tpl, context) ==
    LET dest_file == [dir |-> tpl.dest, name |-> RemoveSuffixJ2(tpl.filename)]
        exists == dest_file \in DOMAIN st.fs
        conds == \A n \in 1..Len(tpl.conditionals) :
                    Conditional(tpl.conditionals[n], context)
        file == FindTemplate(TemplateSource(tpl))
        rendered == EnsureNewline(Render(file, context))
        failing(op) == st.fault.op = op /\ st.fault.dir = tpl.dest
    IN  IF failing("mkdir")
          THEN Processed(st, tpl, context, dest_file, conds, st.fs, "OSError", FALSE, <<>>)
        ELSE IF ~conds
          THEN Processed(st, tpl, context, dest_file, conds, st.fs, "skipped", FALSE, <<>>)
        ELSE IF file = "none"
          THEN Processed(st, tpl, context, dest_file, conds, st.fs,
                         "TemplateNotFound", FALSE, <<>>)
        ELSE IF exists /\ HashOf(st.fs[dest_file].content) = HashOf(rendered)
          THEN Processed(st, tpl, context, dest_file, conds, st.fs, "unchanged", FALSE,
                         Render(file, context))
        ELSE IF failing("write")
          THEN Processed(st, tpl, context, dest_file, conds, st.fs, "OSError", FALSE,
                         Render(file, context))
        ELSE IF failing("chmod")
          THEN Processed(st, tpl, context, dest_file, conds,
                         Update(st.fs, dest_file :>
                           [content |-> rendered,
                            mode |-> IF exists THEN st.fs[dest_file].mode ELSE "umask"]),
                         "OSError", FALSE, Render(file, context))
        ELSE Processed(st, tpl, context, dest_file, conds,
                       Update(st.fs, dest_file :> [content |-> rendered, mode |-> tpl.mode]),
                       "written", TRUE, Render(file, context))

\* CinderVolume._process_template
ProcessTemplate(st, tpl, context) ==
    LET dest_file == [dir |-> tpl.dest, name |-> RemoveSuffixJ2(tpl.filename)]
        exists == dest_file \in DOMAIN st.fs
        conds == \A n \in 1..Len(tpl.conditionals) :
                    Conditional(tpl.conditionals[n], context)
        file == FindTemplate(TemplateSource(tpl))
        rendered == EnsureNewline(Render(file, context))
        failing(op) == st.fault.op = op /\ st.fault.dir = tpl.dest
    IN  IF failing("mkdir")
          THEN Processed(st, tpl, context, dest_file, conds, st.fs, "OSError", FALSE, <<>>)
        ELSE IF ~conds
          THEN IF exists
                 THEN Processed(st, tpl, context, dest_file, conds,
                                Without(st.fs, {dest_file}), "removed", FALSE, <<>>)
               ELSE Processed(st, tpl, context, dest_file, conds, st.fs,
                              "skipped", FALSE, <<>>)
        ELSE IF file = "none"
          THEN Processed(st, tpl, context, dest_file, conds, st.fs,
                         "TemplateNotFound", FALSE, <<>>)
        ELSE IF exists /\ HashOf(st.fs[dest_file].content) = HashOf(rendered)
          THEN Processed(st, tpl, context, dest_file, conds, st.fs, "unchanged", FALSE,
                         Render(file, context))
        ELSE IF failing("write")
          THEN Processed(st, tpl, context, dest_file, conds, st.fs, "OSError", FALSE,
                         Render(file, context))
        ELSE IF failing("chmod")
          THEN Processed(st, tpl, context, dest_file, conds,
                         Update(st.fs, dest_file :>
                           [content |-> rendered,
                            mode |-> IF exists THEN st.fs[dest_file].mode ELSE "umask"]),
                         "OSError", FALSE, Render(file, context))
        ELSE Processed(st, tpl, context, dest_file, conds,
                       Update(st.fs, dest_file :> [content |-> rendered, mode |-> tpl.mode]),
                       "written", TRUE, Render(file, context))

\* F at the value of e: a step's result, worked out once, handed to the
\* step that follows it
Then(e, F(_)) == CHOOSE r \in {F(x) : x \in {e}} : TRUE

\* the templates of one list, in order, a raised error set aside
RECURSIVE ProcessAllKeepsGoing(_, _, _, _)
ProcessAllKeepsGoing(st, tpls, n, context) ==
    IF n > Len(tpls) THEN st
    ELSE Then(ProcessTemplate(st, tpls[n], context),
              LAMBDA st1 : ProcessAllKeepsGoing(st1, tpls, n + 1, context))

\* the templates of one list, in order, until one raises
RECURSIVE ProcessAll(_, _, _, _)
ProcessAll(st, tpls, n, context) ==
    IF n > Len(tpls) \/ st.raised # "none" THEN st
    ELSE Then(ProcessTemplate(st, tpls[n], context),
              LAMBDA st1 : ProcessAll(st1, tpls, n + 1, context))

\* the passes with the two reserved keys left in the namespace at the end
\* of each
RECURSIVE BackendPassesNoPop(_, _, _, _)
BackendPassesNoPop(st, ctxs, n, context) ==
    IF n > Len(ctxs) \/ st.raised # "none" THEN st
    ELSE LET c == ctxs[n]
         IN  Then(Update(context,
                    (BACKEND_CTX_KEY :> Context(c)) @@ (CINDER_CTX_KEY :> c.backend_name)),
                  LAMBDA ctx :
                    Then(ProcessAll(st, template_files(c), 1, ctx), LAMBDA st1 :
                      IF st1.raised # "none" THEN st1
                      ELSE BackendPassesNoPop(
                             [st1 EXCEPT !.log = Append(@,
                                [ev |-> "pass_end", backend |-> c.backend_name,
                                 reserved |-> DOMAIN ctx
                                     \cap {CINDER_CTX_KEY, BACKEND_CTX_KEY}])],
                             ctxs, n + 1, ctx)))

\* the pass of each backend context in turn: the two reserved keys are set
\* in the namespace for its templates and popped after them; the log keeps
\* the end of each pass with the reserved keys the namespace then holds
RECURSIVE BackendPasses(_, _, _, _)
BackendPasses(st, ctxs, n, context) ==
    IF n > Len(ctxs) \/ st.raised # "none" THEN st
    ELSE LET c == ctxs[n]
         IN  Then(Update(context,
                    (BACKEND_CTX_KEY :> Context(c)) @@ (CINDER_CTX_KEY :> c.backend_name)),
                  LAMBDA ctx :
                    Then(ProcessAll(st, template_files(c), 1, ctx), LAMBDA st1 :
                      IF st1.raised # "none" THEN st1
                      ELSE Then(Without(ctx, {CINDER_CTX_KEY, BACKEND_CTX_KEY}),
                                LAMBDA popped :
                                  BackendPasses(
                                    [st1 EXCEPT !.log = Append(@,
                                       [ev |-> "pass_end", backend |-> c.backend_name,
                                        reserved |-> DOMAIN popped
                                            \cap {CINDER_CTX_KEY, BACKEND_CTX_KEY}])],
                                    ctxs, n + 1, popped))))

\* CinderVolume.template on the tree of st; resolved is what backend_contexts
\* returns or raises for the document
Template(st, doc, resolved) ==
    Then(get_config(doc), LAMBDA got :
      IF ~got.ok
        THEN [st EXCEPT !.log = Append(@, [ev |-> "Failed to render context"])]
      ELSE IF ~resolved.ok THEN [st EXCEPT !.raised = resolved.error]
      ELSE Then(render_context(got.cfg), LAMBDA ctx0 :
           Then(AggregateContext(resolved.value), LAMBDA section :
             IF RenderRaises(section)
               THEN [st EXCEPT !.raised = "TemplateSyntaxError"]
             ELSE
           Then(Update(ctx0, [cinder_backends |-> RenderBackendConfigs(ctx0, section)]),
                LAMBDA ctx :
           Then(ProcessAll([st EXCEPT !.contexts = resolved.value.contexts],
                           GlobalTemplateFiles, 1, ctx), LAMBDA st1 :
                BackendPasses(st1, resolved.value.contexts, 1, ctx))))))

----------------------------------------------------------------------------
(* cinder_volume.py: the hooks *)

\* the *.conf files of the backend-fragment directory
ConfFiles(tree) ==
    {f \in DOMAIN tree :
        f.dir = ETC_CINDER_D_CONF_DIR /\ f.name[Len(f.name)] = ".conf"}

\* _clear_backend_configs that unlinks nothing
ClearBackendConfigsKeepsAll(st, stuck) ==
    [st EXCEPT !.log = Append(@, [ev |-> "clear", removed |-> {}, failed |-> {}])]

\* _clear_backend_configs: every *.conf file of the fragment directory is
\* unlinked; an unlink that fails (the files of stuck) is logged and passed
ClearBackendConfigs(st, stuck) ==
    LET found == ConfFiles(st.fs)
    IN  [st EXCEPT
           !.fs = Without(@, found \ stuck),
           !.log = Append(@, [ev |-> "clear", removed |-> found \ stuck,
                              failed |-> found \cap stuck])]

\* start_services with the watched files alone deciding: the files of the
\* backends are left out of the intersection
StartServicesWatchedOnly(st, modified_tpl, backend_tpls) ==
    LET modified_files == {rel_path(t) : t \in Range(modified_tpl)}
        Decide(service) ==
            IF modified_files \cap service.configuration_files # {}
              THEN [ev |-> "restart", service |-> service.name]
            ELSE [ev |-> "start", service |-> service.name]
        present == SelectSeq(Services, LAMBDA service : service.name \in registry)
    IN  [st EXCEPT !.log = @ \o [n \in 1..Len(present) |-> Decide(present[n])]]

\* start_services with the loop left at the first service the registry lacks
StartServicesStopsAtMissing(st, modified_tpl, backend_tpls) ==
    LET modified_files == {rel_path(t) : t \in Range(modified_tpl)}
        backend_files == {rel_path(t) : t \in Range(backend_tpls)}
        Decide(service) ==
            IF modified_files \cap (service.configuration_files \cup backend_files) # {}
              THEN [ev |-> "restart", service |-> service.name]
            ELSE [ev |-> "start", service |-> service.name]
        lacking == {n \in 1..Len(Services) : Services[n].name \notin registry}
        present == IF lacking = {} THEN Services
                   ELSE SubSeq(Services, 1,
                               (CHOOSE n \in lacking : \A m \in lacking : n <= m) - 1)
    IN  [st EXCEPT !.log = @ \o [n \in 1..Len(present) |-> Decide(present[n])]]

\* CinderVolume.start_services: a service the registry lacks is passed over;
\* the others are restarted when a modified file is one they watch or one of
\* the backends' files, and started otherwise
StartServices(st, modified_tpl, backend_tpls) ==
    LET modified_files == {rel_path(t) : t \in Range(modified_tpl)}
        backend_files == {rel_path(t) : t \in Range(backend_tpls)}
        Decide(service) ==
            IF modified_files \cap (service.configuration_files \cup backend_files) # {}
              THEN [ev |-> "restart", service |-> service.name]
            ELSE [ev |-> "start", service |-> service.name]
        present == SelectSeq(Services, LAMBDA service : service.name \in registry)
    IN  [st EXCEPT !.log = @ \o [n \in 1..Len(present) |-> Decide(present[n])]]

RECURSIVE AllTemplateFiles(_, _)
AllTemplateFiles(ctxs, n) ==
    IF n > Len(ctxs) THEN <<>>
    ELSE template_files(ctxs[n]) \o AllTemplateFiles(ctxs, n + 1)

\* CinderVolume.directories, and with them the directories of the contexts
Directories(ctxs) ==
    {ETC_CINDER, ETC_CINDER_D_CONF_DIR, "lib/cinder"}
    \cup {ETC_CEPH : c \in {x \in Range(ctxs) : x.cls = "CephBackendContext"}}

\* CinderVolume.setup_dirs: mkdir and chmod of each directory; a failure of
\* either ends the run
SetupDirs(st, dirs) ==
    IF st.fault.op \in {"mkdir", "chmod"} /\ st.fault.dir \in dirs
      THEN [st EXCEPT !.raised = "OSError",
                      !.log = Append(@, [ev |-> "setup_dirs", outcome |-> "OSError"])]
    ELSE st

\* configure without the case of no backend: whatever backend_contexts
\* raises ends the run
ConfigureRunRaisesAlways(st0, doc, stuck) ==
    Then(ClearBackendConfigs(st0, stuck), LAMBDA st1 :
    Then(backend_contexts(doc), LAMBDA resolved :
      IF ~resolved.ok THEN [st1 EXCEPT !.raised = resolved.error]
      ELSE Then(SetupDirs(st1, Directories(resolved.value.contexts)), LAMBDA st1d :
           IF st1d.raised # "none" THEN st1d
           ELSE Then(Template(st1d, doc, resolved), LAMBDA st2 :
             IF st2.raised # "none" THEN st2
             ELSE StartServices(st2, st2.modified,
                                AllTemplateFiles(resolved.value.contexts, 1))))))

\* CinderVolume.configure on the tree of the run st0, for the document the
\* store holds
ConfigureRun(st0, doc, stuck) ==
    Then(ClearBackendConfigs(st0, stuck), LAMBDA st1 :
    Then(backend_contexts(doc), LAMBDA resolved :
      IF ~resolved.ok
        THEN IF resolved.error = "At least one backend must be enabled"
               THEN [st1 EXCEPT !.log = Append(@, [ev |-> "No backends configured"])]
             ELSE [st1 EXCEPT !.raised = resolved.error]
      ELSE Then(SetupDirs(st1, Directories(resolved.value.contexts)), LAMBDA st1d :
           IF st1d.raised # "none" THEN st1d
           ELSE Then(Template(st1d, doc, resolved), LAMBDA st2 :
             IF st2.raised # "none" THEN st2
             ELSE StartServices(st2, st2.modified,
                                AllTemplateFiles(resolved.value.contexts, 1))))))

\* CinderVolume.install: the directories, then the render pass
InstallRun(st0, doc) ==
    Then(SetupDirs(st0, Directories(<<>>)), LAMBDA st1 :
      IF st1.raised # "none" THEN st1
      ELSE Then(backend_contexts(doc), LAMBDA resolved :
                Template(st1, doc, resolved)))

\* what a hook leaves behind for the claims: the document it read, how it
\* ended, the destinations it reports modified, its events, whether it ran
\* on the document and the tree that the hook before it left, and whether it
\* left the tree as it found it
Outcome(op, st) ==
    [op |-> op,
     doc |-> config,
     contexts |-> st.contexts,
     fault |-> st.fault,
     raised |-> st.raised,
     modified |-> {rel_path(t) : t \in Range(st.modified)},
     log |-> st.log,
     again |-> last.op = op /\ last.raised = "none" /\ last.doc = config,
     same |-> st.fs = fs]

\* the configure hook
Configure(stuck) ==
    /\ runs < MaxRuns
    /\ \E st \in {ConfigureRun(StartRun(fs), config, stuck)} :
          /\ fs' = st.fs
          /\ last' = Outcome("configure", st)
    /\ runs' = runs + 1
    /\ UNCHANGED <<config, registry, bodies, edits, probe>>

\* the install hook
Install ==
    /\ runs < MaxRuns
    /\ \E st \in {InstallRun(StartRun(fs), config)} :
          /\ fs' = st.fs
          /\ last' = Outcome("install", st)
    /\ runs' = runs + 1
    /\ UNCHANGED <<config, registry, bodies, edits, probe>>

\* the records the hooks' specification draws from: a Ceph record with and
\* without a certificate, a Hitachi record with a mirror certificate, records
\* of other kinds under the keys "h" and "h_mirror", a record with a value
\* that holds a malformed expression, a record with a mapping of mappings as
\* a value, and a record that fails validation
HookEntries ==
    {Entry("ceph", <<"h">>, "n1", "p1", "plain"),
     Entry("ceph", <<"h">>, "n1", "p1", "cert"),
     Entry("hitachi", <<"h">>, "n1", "p1", "mirror"),
     Entry("lvm", <<"h">>, "n2", "p1", "plain"),
     Entry("lvm", <<"h", "_mirror">>, "n2", "p1", "plain"),
     Entry("pure", <<"h", "_mirror">>, "n1", "p1", "plain"),
     Entry("lvm", <<"h">>, "n2", "p1", "malformed"),
     Entry("lvm", <<"h">>, "n2", "p1", "nested"),
     Entry("dellsc", <<"h">>, "n2", "p1", "broken")}

\* the template directories: every body without a final newline, or bodies
\* of each shape
BodyChoices ==
    {[file \in TemplateFiles |-> "bare"],
     [file \in TemplateFiles |->
        IF file \in {"backend.pem.j2", "hitachi_backend.pem.j2"} THEN "bare"
        ELSE IF file = "rootwrap.conf.j2" THEN "empty"
        ELSE IF file = "cinder.conf.j2" THEN "blank" ELSE "newline"]}

Init ==
    /\ config = [base |-> GoodBase, backends |-> <<>>]
    /\ fs = EmptyDict
    /\ registry \in {ServiceNames, {"cinder-volume"}, {"cinder-backup"}}
    /\ bodies \in BodyChoices
    /\ last = [op |-> "none"]
    /\ runs = 0
    /\ edits = 0
    /\ probe = NoProbe

Next ==
    \/ \E e \in HookEntries : SnapSet(e)
    \/ \E n \in 1..MaxBackends : SnapUnset(n)
    \/ Install
    \/ \E stuck \in SUBSET ConfFiles(fs) : Configure(stuck)

\* the hooks run one after the other on the store and the tree
Spec == Init /\ [][Next]_vars

----------------------------------------------------------------------------
(* Claims about validation and the registry, under SpecRegistry *)

\* the document of the latest call holds two records with one backend-name
SharesName(doc) ==
    \E m, n \in 1..Len(doc.backends) :
        /\ m # n
        /\ doc.backends[m].kind \in KindSet /\ doc.backends[n].kind \in KindSet
        /\ "volume_backend_name" \in DOMAIN doc.backends[m].cfg
        /\ "volume_backend_name" \in DOMAIN doc.backends[n].cfg
        /\ doc.backends[m].cfg.volume_backend_name
             = doc.backends[n].cfg.volume_backend_name

\* every section and every record of the document passes its schema
FieldsValid(doc) ==
    /\ BaseValid(doc.base)
    /\ \A n \in 1..Len(doc.backends) :
          doc.backends[n].kind \in KindSet =>
            RecordValid(doc.backends[n].kind, doc.backends[n].cfg)

\* two Ceph records of the document declare one pool
SharesPool(doc) ==
    \E m, n \in 1..Len(doc.backends) :
        /\ m # n
        /\ doc.backends[m].kind = "ceph" /\ doc.backends[n].kind = "ceph"
        /\ "rbd_pool" \in DOMAIN doc.backends[m].cfg
        /\ "rbd_pool" \in DOMAIN doc.backends[n].cfg
        /\ doc.backends[m].cfg.rbd_pool = doc.backends[n].cfg.rbd_pool

\* C1: whenever two backend records of the document declare the same
\* backend-name, of one kind or of two, under any instance keys, validation
\* fails: the call ends with the CinderError "Invalid configuration" and
\* returns no document and no aggregate.
C1_DuplicateNameFails ==
    (last.op = "backend_contexts" /\ SharesName(last.doc))
        => (~last.result.ok /\ last.result.error = "Invalid configuration")

\* C1 witness: two valid records of different kinds under one instance key
\* share a name, and the call failed on the duplicate name
C1_Witness ==
    /\ last.op = "backend_contexts"
    /\ FieldsValid(last.doc)
    /\ Len(last.doc.backends) = 2
    /\ last.doc.backends[1].kind # last.doc.backends[2].kind
    /\ last.doc.backends[1].key = last.doc.backends[2].key
    /\ SharesName(last.doc)
    /\ ~last.result.ok
    /\ last.result.cause.err = "Duplicate backend name"

\* C2 as claimed: a valid document of N >= 1 instances with pairwise distinct
\* backend-names validates and yields an aggregate of exactly N contexts,
\* whatever the instance keys are.
C2_OneContextPerInstance ==
    (/\ last.op = "backend_contexts"
     /\ FieldsValid(last.doc)
     /\ Undeclared(last.doc) = <<>>
     /\ Len(last.doc.backends) >= 1
     /\ ~SharesName(last.doc)
     /\ ~SharesPool(last.doc))
        => (/\ last.result.ok
            /\ Len(last.result.value.contexts) = Len(last.doc.backends))

----------------------------------------------------------------------------
(* Claims about the schemas and the context classes, under SpecProbe *)

\* the hidden-key set the specification gives each kind: its own keys and the
\* shared base keys
ClaimedHidden(cls) ==
    {"driver_ssl_cert"} \cup
    CASE cls = "CephBackendContext" -> {"rbd_key", "keyring", "mon_hosts", "auth"}
      [] cls = "HitachiBackendContext" -> {"protocol", "hitachi_mirror_driver_ssl_cert"}
      [] cls \in {"PureBackendContext", "DellscBackendContext",
                  "DellpowerstoreBackendContext"} -> {"protocol"}
      [] OTHER -> {}

\* C8: for every kind and record, the cinder-facing context holds no key of
\* the kind's hidden-key set (its own keys and the base keys), and the raw
\* context holds every hidden field the record supplied.
C8_HiddenKeyExclusion ==
    /\ last.op = "cinder_context"
          => DOMAIN last.result \cap ClaimedHidden(probe.cls) = {}
    /\ last.op = "context"
          => DOMAIN probe.backend_config \cap ClaimedHidden(probe.cls)
                \subseteq DOMAIN last.result

\* C8 witness: a Ceph record with a key and an inline certificate; neither
\* is in the cinder-facing context, which still names the certificate's path
C8_Witness ==
    /\ last.op = "cinder_context"
    /\ probe.cls = "CephBackendContext"
    /\ {"rbd_key", "driver_ssl_cert", "mon_hosts"} \subseteq DOMAIN probe.backend_config
    /\ Truthy(probe.backend_config.driver_ssl_cert)
    /\ "driver_ssl_cert_path" \in DOMAIN last.result
    /\ DOMAIN last.result \cap {"rbd_key", "driver_ssl_cert", "mon_hosts"} = {}

\* the record of the latest validation is a Dell SC record whose fields other
\* than the opt-in flag are all there and well-formed
DellSCButFlag ==
    /\ last.op = "validate_record"
    /\ last.kind = "dellsc"
    /\ Required("dellsc") \ {"enable_unsupported_driver"} \subseteq DOMAIN last.cfg
    /\ \A f \in (DOMAIN last.cfg \cap Declared("dellsc")) \ {"enable_unsupported_driver"} :
          FieldOk("dellsc", f, last.cfg[f])

\* C9: a Dell SC record fails validation when enable-unsupported-driver is
\* omitted or false; with the flag true and every other required field
\* there (dell-sc-ssn included) it passes.
C9_DellSCOptIn ==
    /\ (last.op = "validate_record" /\ last.kind = "dellsc"
         /\ ("enable_unsupported_driver" \notin DOMAIN last.cfg
             \/ last.cfg.enable_unsupported_driver = Bool(FALSE)))
          => ~last.ok
    /\ (DellSCButFlag /\ "enable_unsupported_driver" \in DOMAIN last.cfg
         /\ last.cfg.enable_unsupported_driver = Bool(TRUE))
          => last.ok

\* C9 witness: the record that fails with the flag false, every other field
\* being in order
C9_Witness ==
    /\ DellSCButFlag
    /\ "enable_unsupported_driver" \in DOMAIN last.cfg
    /\ last.cfg.enable_unsupported_driver = Bool(FALSE)
    /\ ~last.ok

\* the protocol of the context object, "absent" when the record has none
ProbeProtocol ==
    IF "protocol" \in DOMAIN probe.backend_config
      THEN probe.backend_config.protocol.s ELSE "absent"

\* C10 as claimed: Ceph always has the RBD driver; Pure has the NVMe driver
\* when protocol is nvme, the iSCSI driver when it is iscsi, and the
\* Fibre-Channel driver when it is fc, absent or anything else.
C10_DriverSelectionAsClaimed ==
    last.op = "cinder_context" =>
        /\ probe.cls = "CephBackendContext"
              => last.result.volume_driver = Str("cinder.volume.drivers.rbd.RBDDriver")
        /\ probe.cls = "PureBackendContext"
              => last.result.volume_driver =
                   Str(CASE ProbeProtocol = "nvme" ->
                              "cinder.volume.drivers.pure.PureNVMEDriver"
                         [] ProbeProtocol = "iscsi" ->
                              "cinder.volume.drivers.pure.PureISCSIDriver"
                         [] OTHER -> "cinder.volume.drivers.pure.PureFCDriver")

\* C10 amended: the protocol is compared after lowercasing, so NVME selects
\* the NVMe driver and ISCSI the iSCSI driver; only a protocol that is
\* absent or, lowercased, none of nvme and iscsi selects Fibre Channel.
C10_DriverSelection ==
    last.op = "cinder_context" =>
        /\ probe.cls = "CephBackendContext"
              => last.result.volume_driver = Str("cinder.volume.drivers.rbd.RBDDriver")
        /\ probe.cls = "PureBackendContext"
              => last.result.volume_driver =
                   Str(CASE ProbeProtocol \in {"nvme", "NVME"} ->
                              "cinder.volume.drivers.pure.PureNVMEDriver"
                         [] ProbeProtocol \in {"iscsi", "ISCSI"} ->
                              "cinder.volume.drivers.pure.PureISCSIDriver"
                         [] OTHER -> "cinder.volume.drivers.pure.PureFCDriver")

\* C10 witness: a Pure record whose protocol is written NVME has the NVMe
\* driver in its cinder-facing context, and the protocol itself is hidden
C10_Witness ==
    /\ last.op = "cinder_context"
    /\ probe.cls = "PureBackendContext"
    /\ ProbeProtocol = "NVME"
    /\ last.result.volume_driver = Str("cinder.volume.drivers.pure.PureNVMEDriver")
    /\ "protocol" \notin DOMAIN last.result

----------------------------------------------------------------------------
(* Claims about the hooks, under Spec *)

ProcessEvents == SelectSeq(last.log, LAMBDA ev : ev.ev = "process")

ServiceEvents == SelectSeq(last.log, LAMBDA ev : ev.ev \in {"start", "restart"})

\* C3, as claimed: a render pass run again on the document and the tree the
\* pass before it left reports nothing modified and leaves every file as it
\* was
C3_RenderIdempotent ==
    (last.op = "install" /\ last.again /\ last.raised = "none")
        => (last.modified = {} /\ last.same)

\* C4: a call of _process_template with a conditional that fails renders
\* nothing and returns false; its destination is not there after the call:
\* removed if it was there before, not created if it was not
C4_ConditionalRemoval ==
    last.op \in {"install", "configure"} =>
        \A n \in 1..Len(ProcessEvents) :
            LET ev == ProcessEvents[n]
            IN  ~ev.conds =>
                  /\ ~ev.returned
                  /\ ~ev.exists
                  /\ ev.outcome = IF ev.existed THEN "removed" ELSE "skipped"

C4_Witness ==
    /\ last.op \in {"install", "configure"}
    /\ \E n \in 1..Len(ProcessEvents) :
          ~ProcessEvents[n].conds /\ ProcessEvents[n].existed
    /\ \E n \in 1..Len(ProcessEvents) :
          ~ProcessEvents[n].conds /\ ~ProcessEvents[n].existed

\* a configure run that came to start_services
ReachedServices ==
    /\ last.op = "configure"
    /\ last.raised = "none"
    /\ \A n \in 1..Len(last.log) : last.log[n].ev # "No backends configured"

\* the destinations of the templates of the run's backends
BackendPaths ==
    {rel_path(ProcessEvents[n].tpl) :
        n \in {m \in 1..Len(ProcessEvents) : ProcessEvents[m].pass # <<>>}}

\* the services of the registry get one call each, in the order of the
\* list, a restart where Restarted(service) holds and a start elsewhere
ServiceCalls(Restarted(_)) ==
    LET present == SelectSeq(Services, LAMBDA service : service.name \in registry)
    IN  /\ Len(ServiceEvents) = Len(present)
        /\ \A n \in 1..Len(present) :
              /\ ServiceEvents[n].service = present[n].name
              /\ (ServiceEvents[n].ev = "restart") <=> Restarted(present[n])

WatchedModified(service) == service.configuration_files \cap last.modified # {}

WatchedOrBackendModified(service) ==
    (service.configuration_files \cup BackendPaths) \cap last.modified # {}

\* C5, as claimed: a service of the registry is restarted exactly when a file
\* it watches is among the modified ones, and started otherwise
C5_RestartIffWatchedModified ==
    ReachedServices => ServiceCalls(WatchedModified)

\* C5: a service of the registry is restarted exactly when a modified file is
\* one it watches or the destination of a template of one of the run's
\* backends, and started otherwise; a service the registry lacks gets no call
C5_RestartIffWatchedOrBackendModified ==
    ReachedServices => ServiceCalls(WatchedOrBackendModified)

C5_Witness ==
    /\ ReachedServices
    /\ registry = ServiceNames
    /\ \E n \in 1..Len(ServiceEvents) :
          /\ ServiceEvents[n].ev = "restart"
          /\ ServiceEvents[n].service = "cinder-backup"
    /\ \A n \in 1..Len(Services) : ~WatchedModified(Services[n])

C5_WitnessStart ==
    /\ ReachedServices
    /\ \E n \in 1..Len(ServiceEvents) : ServiceEvents[n].ev = "start"

\* the fragment of each record of a document
ExpectedFragments(doc) ==
    {[dir |-> ETC_CINDER_D_CONF_DIR, name |-> doc.backends[n].key \o <<".conf">>] :
        n \in 1..Len(doc.backends)}

\* a configure run on a document that holds no backend and is valid apart
\* from that
ZeroBackends == last.op = "configure" /\ last.doc.backends = <<>>

\* a configure run on a document that holds backends and fails validation
InvalidDocument ==
    /\ last.op = "configure"
    /\ last.doc.backends # <<>>
    /\ ~get_config(last.doc).ok

\* C6, as claimed: a configure run on a document without backends leaves no
\* fragment, renders nothing, calls no service and returns; another error of
\* the resolution ends the run
C6_ZeroBackendsClearsAll ==
    /\ ZeroBackends =>
          /\ last.raised = "none"
          /\ ProcessEvents = <<>> /\ ServiceEvents = <<>>
          /\ ConfFiles(fs) = {}
    /\ InvalidDocument =>
          /\ last.raised = "Invalid configuration"
          /\ ProcessEvents = <<>> /\ ServiceEvents = <<>>

\* C6: a configure run on a document without backends leaves no fragment but
\* those whose deletion failed, renders nothing, calls no service and
\* returns; another error of the resolution ends the run
C6_ZeroBackendsClears ==
    /\ ZeroBackends =>
          /\ last.raised = "none"
          /\ ProcessEvents = <<>> /\ ServiceEvents = <<>>
          /\ last.log[1].ev = "clear"
          /\ ConfFiles(fs) = last.log[1].failed
    /\ InvalidDocument =>
          /\ last.raised = "Invalid configuration"
          /\ ProcessEvents = <<>> /\ ServiceEvents = <<>>

C6_Witness ==
    /\ ZeroBackends
    /\ last.log[1].removed # {}
    /\ last.log[1].failed = {}

C6_WitnessInvalid == InvalidDocument

\* C7, as claimed: after a configure run that completed, the fragments in
\* the directory are those of the records of its document
C7_NoStaleFragment ==
    (last.op = "configure" /\ last.raised = "none")
        => ConfFiles(fs) = ExpectedFragments(last.doc)

\* C7: a configure run clears the fragment directory before anything else;
\* after a run that completed, the directory holds the fragments of the
\* records of its document and, besides them, only files whose deletion
\* failed in that run
C7_NoStaleFragmentButStuck ==
    last.op = "configure" =>
        /\ last.log[1].ev = "clear"
        /\ last.raised = "none" =>
              /\ ExpectedFragments(last.doc) \subseteq ConfFiles(fs)
              /\ ConfFiles(fs) \subseteq ExpectedFragments(last.doc) \cup last.log[1].failed

C7_Witness ==
    /\ last.op = "configure" /\ last.raised = "none"
    /\ last.doc.backends # <<>>
    /\ last.log[1].removed \ ExpectedFragments(last.doc) # {}
    /\ ConfFiles(fs) = ExpectedFragments(last.doc)

----------------------------------------------------------------------------
(* Claims about the aggregate built directly, under SpecProbe *)

\* the keys of the mapping the latest aggregate was built on
MemberKeys == {last.contexts[n].namespace : n \in 1..Len(last.contexts)}

\* C11: building the aggregate on an empty list of enabled backends raises
\* the CinderError "At least one backend must be enabled"; building it with
\* an enabled key that has no context raises the CinderError that names the
\* missing keys; so an aggregate exists only for a non-empty list of enabled
\* keys that all have a context.
C11_AggregateNeedsBackends ==
    last.op = "aggregate" =>
        /\ last.enabled = <<>> =>
              /\ ~last.result.ok
              /\ last.result.error = "At least one backend must be enabled"
        /\ (last.enabled # <<>> /\ ~(Range(last.enabled) \subseteq MemberKeys)) =>
              /\ ~last.result.ok
              /\ last.result.error = "Context missing configuration for backends"
              /\ last.result.missing = Range(last.enabled) \ MemberKeys
        /\ last.result.ok =>
              /\ last.enabled # <<>>
              /\ Range(last.enabled) \subseteq MemberKeys

\* C11 witness: one of two enabled keys has a context, the other has none,
\* and the construction failed naming the other
C11_Witness ==
    /\ last.op = "aggregate"
    /\ Len(last.enabled) = 2
    /\ last.enabled[1] \in MemberKeys
    /\ last.enabled[2] \notin MemberKeys
    /\ ~last.result.ok
    /\ last.result.missing = {last.enabled[2]}

\* supports_cluster as the specification fixes it per kind
ClaimedSupportsCluster(cls) ==
    cls \in {"CephBackendContext", "PureBackendContext"}

\* C12: cluster_ok of the aggregate context is the conjunction of
\* supports_cluster over all member contexts, supports_cluster being true
\* for Ceph and Pure and false for LVM, Hitachi, Dell SC and Dell PowerStore.
C12_ClusterOkIsConjunction ==
    last.op = "aggregate_context" =>
        /\ \A n \in 1..Len(last.contexts) :
              last.contexts[n].cls # "BaseBackendContext" =>
                (last.contexts[n].supports_cluster
                   <=> ClaimedSupportsCluster(last.contexts[n].cls))
        /\ last.result.cluster_ok
              <=> \A n \in 1..Len(last.contexts) : last.contexts[n].supports_cluster

\* C12 witness: a Ceph and a Hitachi member; the one that does not support
\* clustering makes the flag false
C12_Witness ==
    /\ last.op = "aggregate_context"
    /\ Len(last.contexts) = 2
    /\ last.contexts[1].cls = "CephBackendContext"
    /\ last.contexts[2].cls = "HitachiBackendContext"
    /\ ~last.result.cluster_ok

----------------------------------------------------------------------------
(* Claims about the registry again, under SpecRegistry *)

\* the document holds one instance in an `lvm-san` section and is valid
HoldsLvmSan(doc) ==
    /\ Len(Undeclared(doc)) = 1
    /\ Undeclared(doc)[1].kind = "lvm_san"
    /\ FieldsValid(doc) /\ ~SharesName(doc) /\ ~SharesPool(doc)

\* C13, as claimed: on a document with an `lvm-san` section holding one
\* instance, backend_contexts returns an aggregate with a context under that
\* instance key, of the class LvmSanBackendContext, whose cinder-facing
\* context has the LVM driver, volume_group and iscsi_ip_address.
C13_DiscoversLvmSan ==
    (last.op = "backend_contexts" /\ HoldsLvmSan(last.doc)) =>
        /\ last.result.ok
        /\ \E n \in 1..Len(last.result.value.contexts) :
              LET c == last.result.value.contexts[n]
              IN  /\ c.namespace = Undeclared(last.doc)[1].key
                  /\ c.cls = "LvmSanBackendContext"
                  /\ cinder_context(c).volume_driver
                       = Str("cinder.volume.drivers.lvm.LVMVolumeDriver")
                  /\ cinder_context(c).volume_group = Str("cinder-volumes")
                  /\ cinder_context(c).iscsi_ip_address = Str("10.20.30.40")

----------------------------------------------------------------------------
(* Claims about the schemas again, under SpecProbe *)

\* the record of the latest validation carries the field custom-option, which
\* no schema declares, and is in order apart from it
CarriesUnknownField ==
    /\ last.op = "validate_record"
    /\ "custom-option" \in DOMAIN last.cfg
    /\ Required(last.kind) \subseteq DOMAIN last.cfg
    /\ \A f \in DOMAIN last.cfg \cap Declared(last.kind) :
          FieldOk(last.kind, f, last.cfg[f])

\* the field is in the materialized mapping under custom_option, with its
\* value, and in the context of a backend built on the mapping
UnknownFieldKept ==
    /\ last.ok
    /\ "custom_option" \in DOMAIN last.dump
    /\ last.dump["custom_option"] = last.cfg["custom-option"]
    /\ "custom_option" \in
          DOMAIN Context(NewContext(ContextClassName(last.kind), <<"h">>, last.dump))

\* C14, as claimed: for every kind, a record that carries a field its schema
\* does not declare passes validation, and the field is kept, under its
\* name with the hyphens turned into underscores and with its value, in the
\* materialized mapping and in the context.
C14_UnknownFieldsKept == CarriesUnknownField => UnknownFieldKept

\* the same for the kinds other than Ceph
UnknownFieldsKeptButCeph ==
    (CarriesUnknownField /\ last.kind # "ceph") => UnknownFieldKept

----------------------------------------------------------------------------
(* Claims about the registry again, under SpecRegistry *)

\* the backend-name a context's record declares, as the tokens of a name
DeclaredName(c) == <<c.backend_config.volume_backend_name.s>>

\* C15, as claimed: every context of a resolved aggregate has the instance
\* key of its record as namespace and the backend-name its record declares as
\* backend_name, and the declared backend-name keys the context's sub-mapping
\* of the aggregate section and names its fragment file.
C15_ContextIdentity ==
    (last.op = "backend_contexts" /\ last.result.ok) =>
        LET agg == last.result.value
        IN  \A c \in Range(agg.contexts) :
              /\ \E e \in Range(last.doc.backends) :
                    /\ e.key = c.namespace
                    /\ ContextClassName(e.kind) = c.cls
                    /\ ModelDump(e.kind, e.cfg) = c.backend_config
              /\ c.backend_name = DeclaredName(c)
              /\ DeclaredName(c) \in DOMAIN AggregateContext(agg).contexts
              /\ template_files(c)[1].filename = DeclaredName(c) \o <<".conf">>

\* the part of it about the namespace alone
ContextNamespaceIsKey ==
    (last.op = "backend_contexts" /\ last.result.ok) =>
        \A c \in Range(last.result.value.contexts) :
           \E e \in Range(last.doc.backends) :
              /\ e.key = c.namespace
              /\ ContextClassName(e.kind) = c.cls
              /\ ModelDump(e.kind, e.cfg) = c.backend_config

----------------------------------------------------------------------------
(* Claims about the hooks again, under Spec *)

\* the calls a service got in the latest run
CallsOf(name) ==
    {n \in 1..Len(ServiceEvents) : ServiceEvents[n].service = name}

\* C16: in a configure run that comes to start_services, a service that the
\* process registry lacks gets neither start nor restart and the run raises
\* nothing; every other service of the list gets its one call, also a
\* service that stands behind the lacking one in the list.
C16_MissingServiceSkipped ==
    ReachedServices =>
        /\ last.raised = "none"
        /\ \A n \in 1..Len(Services) :
              IF Services[n].name \in registry
                THEN Cardinality(CallsOf(Services[n].name)) = 1
              ELSE CallsOf(Services[n].name) = {}

C16_Witness ==
    /\ ReachedServices
    /\ \E n, m \in 1..Len(Services) :
          /\ n < m
          /\ Services[n].name \notin registry
          /\ Services[m].name \in registry
          /\ CallsOf(Services[m].name) # {}

----------------------------------------------------------------------------
(* Claims about validation again, under SpecRegistry *)

\* a record of another kind than Ceph carries the pool of another record
PoolOutsideCeph(doc) ==
    \E m, n \in 1..Len(doc.backends) :
        /\ m # n
        /\ doc.backends[m].kind \in KindSet \ {"ceph"}
        /\ doc.backends[n].kind \in KindSet
        /\ "rbd-pool" \in DOMAIN doc.backends[m].cfg
        /\ \E f \in {"rbd-pool", "rbd_pool"} \cap DOMAIN doc.backends[n].cfg :
              doc.backends[n].cfg[f] = doc.backends[m].cfg["rbd-pool"]

\* C17: whenever two Ceph records of the document declare one rbd-pool,
\* whatever their backend-names and instance keys, the call ends with the
\* CinderError "Invalid configuration" and returns nothing; and the pool is
\* compared among Ceph records only: a document whose fields are valid, whose
\* backend-names differ and whose Ceph records have different pools
\* validates, also when a record of another kind carries the pool of a Ceph
\* record or of a record of its own kind.
C17_PoolUniqueAmongCeph ==
    last.op = "backend_contexts" =>
        /\ SharesPool(last.doc) =>
              /\ ~last.result.ok
              /\ last.result.error = "Invalid configuration"
        /\ (FieldsValid(last.doc) /\ ~SharesName(last.doc) /\ ~SharesPool(last.doc))
              => get_config(last.doc).ok

C17_Witness ==
    /\ last.op = "backend_contexts"
    /\ SharesPool(last.doc)
    /\ ~SharesName(last.doc)
    /\ FieldsValid(last.doc)
    /\ last.doc.backends[1].key # last.doc.backends[2].key
    /\ ~last.result.ok
    /\ last.result.cause.err = "Duplicate Ceph pool"

\* a pool shared between a Ceph record and a record of another kind
C17_WitnessOtherKind ==
    /\ last.op = "backend_contexts"
    /\ PoolOutsideCeph(last.doc)
    /\ \E n \in 1..Len(last.doc.backends) : last.doc.backends[n].kind = "ceph"
    /\ last.result.ok

----------------------------------------------------------------------------
(* Claims about the files of the backends, under Spec *)

\* the latest run was a render pass that came to its end over the backends
\* of its document
CompletedPass ==
    /\ last.op \in {"install", "configure"}
    /\ last.raised = "none"
    /\ last.contexts # <<>>
    /\ \A n \in 1..Len(last.log) :
          last.log[n].ev \notin {"No backends configured", "Failed to render context"}

PemFile(name) == [dir |-> ETC_CINDER_D_CONF_DIR, name |-> name \o <<".pem">>]

HasSecret(c) == Truthy(Get(c.backend_config, "driver_ssl_cert", None))

\* C18, as claimed: after a completed render pass, for every backend of the
\* aggregate the file <backend-name>.pem is in the fragment directory exactly
\* when the backend's record carries a driver-ssl-cert that is not empty; a
\* pass that follows the dropping of the secret therefore leaves no such
\* file.
C18_SecretFileIffSecret ==
    CompletedPass =>
        \A c \in Range(last.contexts) :
            (PemFile(DeclaredName(c)) \in DOMAIN fs) <=> HasSecret(c)

\* the same with the file named after the instance key
SecretFileByKeyIffSecret ==
    CompletedPass =>
        \A c \in Range(last.contexts) :
            (PemFile(c.namespace) \in DOMAIN fs) <=> HasSecret(c)

----------------------------------------------------------------------------
(* Claims about the order of the render pass, under Spec *)

\* a render pass that processed templates and raised nothing
RenderedPass ==
    /\ last.op \in {"install", "configure"}
    /\ last.raised = "none"
    /\ Len(ProcessEvents) > 0

Reserved == {CINDER_CTX_KEY, BACKEND_CTX_KEY}

\* the calls of _process_template made for the backend of the name
PassOf(name) ==
    {n \in 1..Len(last.log) :
        last.log[n].ev = "process" /\ last.log[n].pass = name}

\* C19: in a render pass that raises nothing, the global templates are
\* processed first and with neither reserved key in the namespace; then come
\* the backends in the order of the aggregate, one at a time, each with its
\* own templates and with both reserved keys set and naming it; and when the
\* pass of a backend has ended, before any template of the next backend, the
\* namespace holds neither reserved key.
C19_GlobalsThenBackendsInTurn ==
    RenderedPass =>
        /\ \A n \in 1..Len(GlobalTemplateFiles) :
              /\ ProcessEvents[n].tpl = GlobalTemplateFiles[n]
              /\ ProcessEvents[n].reserved = {}
              /\ ProcessEvents[n].pass = <<>>
        /\ \A n \in 1..Len(ProcessEvents) :
              n > Len(GlobalTemplateFiles) =>
                /\ ProcessEvents[n].reserved = Reserved
                /\ \E c \in Range(last.contexts) :
                      /\ ProcessEvents[n].pass = c.backend_name
                      /\ ProcessEvents[n].tpl \in Range(template_files(c))
        /\ \A m \in 1..Len(last.contexts) :
              LET name == last.contexts[m].backend_name
              IN  /\ PassOf(name) # {}
                  /\ \E e \in 1..Len(last.log) :
                        /\ last.log[e].ev = "pass_end"
                        /\ last.log[e].backend = name
                        /\ last.log[e].reserved = {}
                        /\ \A n \in PassOf(name) : n < e
                        /\ \A k \in 1..Len(last.contexts) :
                              LET other == PassOf(last.contexts[k].backend_name)
                              IN  /\ k < m => \A n \in other : \A i \in PassOf(name) : n < i
                                  /\ k > m => \A n \in other : e < n

C19_Witness ==
    /\ RenderedPass
    /\ Len(last.contexts) = 2
    /\ PassOf(last.contexts[1].backend_name) # {}
    /\ PassOf(last.contexts[2].backend_name) # {}
    /\ PassOf(<<>>) # {}

----------------------------------------------------------------------------
(* Claims about the content of the reserved keys, under Spec *)

\* the context of the aggregate whose pass the call of the event belongs to
ActingBackend(ev) == CHOOSE c \in Range(last.contexts) : c.backend_name = ev.pass

BackendEvents == SelectSeq(ProcessEvents, LAMBDA ev : ev.pass # <<>>)

\* C20, as claimed: while the templates of a backend are processed, the
\* reserved backend-context key holds the backend's cinder-facing context,
\* the hidden keys removed and the fields that are None dropped, and the
\* reserved name key holds the backend-name the backend's record declares.
C20_ReservedContent ==
    RenderedPass =>
        \A n \in 1..Len(BackendEvents) :
            LET ev == BackendEvents[n]
            IN  /\ ev.ctx_backend = cinder_context(ActingBackend(ev))
                /\ ev.pass = DeclaredName(ActingBackend(ev))

\* what the keys hold: the backend's context as context() returns it, and
\* the backend's instance key
ReservedContentRaw ==
    RenderedPass =>
        \A n \in 1..Len(BackendEvents) :
            LET ev == BackendEvents[n]
            IN  /\ ev.ctx_backend = Context(ActingBackend(ev))
                /\ ev.pass = ActingBackend(ev).namespace

\* the backend-context key alone, as claimed
ReservedContextIsCinderFacing ==
    RenderedPass =>
        \A n \in 1..Len(BackendEvents) :
            BackendEvents[n].ctx_backend
                = cinder_context(ActingBackend(BackendEvents[n]))

----------------------------------------------------------------------------
(* One GenericCinderVolume object and its cache of the backend contexts *)

\* CinderVolume.__init__: no aggregate kept yet
NewGenericCinderVolume == [cls |-> "GenericCinderVolume", _backend_contexts |-> None]

\* backend_contexts reading and validating the configuration at every call
backend_contexts_uncached(obj, resolved) ==
    [result |-> resolved, read |-> TRUE,
     obj |-> IF resolved.ok THEN [obj EXCEPT !._backend_contexts = resolved.value]
             ELSE obj]

\* GenericCinderVolume.backend_contexts on an object: the aggregate it keeps
\* if it keeps one; otherwise the configuration is read and resolved, which
\* gives `resolved`, and the aggregate is kept unless the call raised
backend_contexts_of(obj, resolved) ==
    IF obj._backend_contexts # None
      THEN [result |-> [ok |-> TRUE, value |-> obj._backend_contexts],
            read |-> FALSE, obj |-> obj]
    ELSE [result |-> resolved, read |-> TRUE,
          obj |-> IF resolved.ok
                    THEN [obj EXCEPT !._backend_contexts = resolved.value]
                  ELSE obj]

\* one call of backend_contexts on the object of the invocation
CallBackendContexts ==
    /\ probe.cls = "GenericCinderVolume"
    /\ \E resolved \in {backend_contexts(config)} :
       \E r \in {backend_contexts_of(probe, resolved)} :
          /\ probe' = r.obj
          /\ last' = [op |-> "object.backend_contexts", doc |-> config,
                      kept |-> probe._backend_contexts,
                      result |-> r.result, read |-> r.read]
    /\ UNCHANGED <<config, fs, registry, bodies, runs, edits>>

\* the invocation ends and another begins: cls() builds a new object
NewInvocation ==
    /\ probe.cls = "GenericCinderVolume"
    /\ probe._backend_contexts # None
    /\ probe' = NewGenericCinderVolume
    /\ last' = [op |-> "new"]
    /\ UNCHANGED <<config, fs, registry, bodies, runs, edits>>

InitObject ==
    /\ config = [base |-> GoodBase, backends |-> <<>>]
    /\ fs = <<>>
    /\ registry = {}
    /\ bodies = <<>>
    /\ last = [op |-> "none"]
    /\ runs = 0
    /\ edits = 0
    /\ probe = NewGenericCinderVolume

NextObject ==
    \/ \E e \in HookEntries : SnapSet(e)
    \/ \E n \in 1..MaxBackends : SnapUnset(n)
    \/ CallBackendContexts
    \/ NewInvocation

\* one object called again and again while the store is edited
SpecObject == InitObject /\ [][NextObject]_vars

\* C21: on an object that keeps an aggregate from an earlier successful
\* call, backend_contexts returns that aggregate and neither reads nor
\* validates the configuration, whatever the store holds by then; a call
\* that raised leaves the object keeping nothing.
C21_AggregateCached ==
    last.op = "object.backend_contexts" =>
        /\ last.kept # None =>
              /\ ~last.read
              /\ last.result = [ok |-> TRUE, value |-> last.kept]
              /\ probe._backend_contexts = last.kept
        /\ last.kept = None =>
              /\ last.read
              /\ last.result = backend_contexts(last.doc)
              /\ probe._backend_contexts
                    = IF last.result.ok THEN last.result.value ELSE None

\* the store changed after the aggregate was kept: the call returns what a
\* new resolution would not
C21_Witness ==
    /\ last.op = "object.backend_contexts"
    /\ last.kept # None
    /\ last.result # backend_contexts(last.doc)

\* a call that raised; the object keeps nothing
C21_WitnessFailed ==
    /\ last.op = "object.backend_contexts"
    /\ ~last.result.ok
    /\ last.result.error = "Invalid configuration"
    /\ probe._backend_contexts = None

----------------------------------------------------------------------------
(* Claims about one call of _process_template, under Spec *)

\* the calls of the latest run that rendered their template
RenderedEvents ==
    SelectSeq(ProcessEvents, LAMBDA ev : ev.outcome \in {"written", "unchanged"})

EndsWithNewline(text) == Len(text) > 0 /\ text[Len(text)] = NL

EndsWithOneNewline(text) ==
    /\ EndsWithNewline(text)
    /\ Len(text) > 1 => text[Len(text) - 1] # NL

\* C22, as claimed: the output of a template, as it is hashed and as it is
\* written, is empty when the template puts out nothing and otherwise ends
\* with exactly one newline.
C22_ExactlyOneTrailingNewline ==
    last.op \in {"install", "configure"} =>
        \A n \in 1..Len(RenderedEvents) :
            LET ev == RenderedEvents[n]
            IN  /\ ev.raw = <<>> => ev.rendered = <<>>
                /\ ev.raw # <<>> => EndsWithOneNewline(ev.rendered)
                /\ ev.outcome = "written" => ev.after.content = ev.rendered

\* what the code ensures: a newline at the end, added when there is none
TrailingNewlineEnsured ==
    last.op \in {"install", "configure"} =>
        \A n \in 1..Len(RenderedEvents) :
            LET ev == RenderedEvents[n]
            IN  /\ ev.raw = <<>> => ev.rendered = <<>>
                /\ ev.raw # <<>> =>
                      /\ EndsWithNewline(ev.rendered)
                      /\ ev.rendered = IF EndsWithNewline(ev.raw) THEN ev.raw
                                        ELSE Append(ev.raw, NL)
                /\ ev.outcome = "written" => ev.after.content = ev.rendered

----------------------------------------------------------------------------
(* Claims about the failures of a render pass, under Spec *)

\* render_context raised in the latest run
RenderContextFailed ==
    \E n \in 1..Len(last.log) : last.log[n].ev = "Failed to render context"

\* the derivation of the namespace failed: at render_context, or at the
\* substitution of the backends' values
DerivationFailed == RenderContextFailed \/ last.raised = "TemplateSyntaxError"

\* C23, as claimed: when the derivation of the render namespace fails, at
\* render_context or at the substitution of a backend value that holds a
\* malformed expression, template raises nothing, reports nothing modified
\* and processes no template.
C23_DerivationFailureCaught ==
    (last.op \in {"install", "configure"} /\ DerivationFailed) =>
        /\ last.raised = "none"
        /\ last.modified = {}
        /\ Len(ProcessEvents) = 0

\* the failures of render_context alone
RenderContextFailureCaught ==
    (last.op \in {"install", "configure"} /\ RenderContextFailed) =>
        /\ last.raised = "none"
        /\ last.modified = {}
        /\ Len(ProcessEvents) = 0
        /\ last.op = "install" => last.same

RenderContextFailureSeen == last.op = "install" /\ RenderContextFailed

----------------------------------------------------------------------------
(* Claims about the substitution of embedded expressions, under Spec *)

\* the value holds an embedded expression, at any depth
RECURSIVE HoldsExpression(_)
HoldsExpression(v) ==
    IF DOMAIN v = {"t"} THEN \E n \in 1..Len(v.t) : v.t[n] = SnapCommonExpr
    ELSE IF IsDict(v) THEN \E k \in DOMAIN v.d : HoldsExpression(v.d[k])
    ELSE FALSE

\* w is v with nothing touched but the str values: the keys of every mapping
\* are those of v, every value that is neither a str nor a mapping is the
\* value of v, and a str without expression is the str of v
RECURSIVE Agrees(_, _)
Agrees(v, w) ==
    IF IsDict(v)
      THEN /\ IsDict(w)
           /\ DOMAIN w.d = DOMAIN v.d
           /\ \A k \in DOMAIN v.d : Agrees(v.d[k], w.d[k])
    ELSE IF IsStr(v) THEN IsStr(w) /\ (~HoldsExpression(v) => w = v)
    ELSE w = v

\* the aggregate section of the namespace that the call of the event rendered
\* its template with
SectionOfEvent(ev) == ev.raw[1].context.cinder_backends

NamespaceEvents == SelectSeq(RenderedEvents, LAMBDA ev : ev.raw # <<>>)

\* C24: in the namespace that every template is rendered with, the mapping of
\* each backend in the aggregate section holds no embedded expression, at
\* any depth; it has the keys of the backend's cinder-facing context, at
\* every depth, and its values that are neither str nor mapping are those of
\* that context.
C24_ExpressionsResolved ==
    last.op \in {"install", "configure"} =>
        \A n \in 1..Len(NamespaceEvents) :
            LET contexts == SectionOfEvent(NamespaceEvents[n]).contexts
            IN  /\ DOMAIN contexts = {c.backend_name : c \in Range(last.contexts)}
                /\ \A c \in Range(last.contexts) :
                      /\ ~HoldsExpression(Dict(contexts[c.backend_name]))
                      /\ Agrees(Dict(cinder_context(c)),
                                Dict(contexts[c.backend_name]))

\* a backend whose context holds expressions in a mapping of a mapping and
\* in a str of its own
C24_Witness ==
    /\ last.op \in {"install", "configure"}
    /\ Len(NamespaceEvents) > 0
    /\ \E c \in Range(last.contexts) :
          /\ "custom_option" \in DOMAIN cinder_context(c)
          /\ IsDict(cinder_context(c).custom_option)
          /\ HoldsExpression(cinder_context(c).custom_option.d.inner)

\* a backend whose context holds an expression in a str of its own
C24_WitnessPath ==
    /\ last.op \in {"install", "configure"}
    /\ Len(NamespaceEvents) > 0
    /\ \E c \in Range(last.contexts) :
          /\ "driver_ssl_cert_path" \in DOMAIN cinder_context(c)
          /\ HoldsExpression(cinder_context(c).driver_ssl_cert_path)

----------------------------------------------------------------------------
(* The hooks while calls of the filesystem fail *)

\* the calls that fail during one run: mkdir, write_text or chmod, below one
\* directory
Faults ==
    {[op |-> op, dir |-> dir] :
        op \in {"mkdir", "write", "chmod"},
        dir \in {ETC_CINDER, ETC_CINDER_D_CONF_DIR, ETC_CEPH}}

\* a Ceph record with a certificate and an LVM record
FaultEntries ==
    {Entry("ceph", <<"h">>, "n1", "p1", "cert"),
     Entry("lvm", <<"h", "_mirror">>, "n2", "p1", "plain")}

\* the hooks run at most this many times while calls fail
MaxFaultRuns == 3

\* the configure hook while the calls of the fault fail
ConfigureUnderFault(fault) ==
    /\ runs < MaxFaultRuns
    /\ \E st \in {ConfigureRun(StartRunUnderFault(fs, fault), config, {})} :
          /\ fs' = st.fs
          /\ last' = Outcome("configure", st)
    /\ runs' = runs + 1
    /\ UNCHANGED <<config, registry, bodies, edits, probe>>

\* the install hook while the calls of the fault fail
InstallUnderFault(fault) ==
    /\ runs < MaxFaultRuns
    /\ \E st \in {InstallRun(StartRunUnderFault(fs, fault), config)} :
          /\ fs' = st.fs
          /\ last' = Outcome("install", st)
    /\ runs' = runs + 1
    /\ UNCHANGED <<config, registry, bodies, edits, probe>>

InitFaults ==
    /\ config = [base |-> GoodBase, backends |-> <<>>]
    /\ fs = EmptyDict
    /\ registry = ServiceNames
    /\ bodies = [file \in TemplateFiles |-> "bare"]
    /\ last = [op |-> "none"]
    /\ runs = 0
    /\ edits = 0
    /\ probe = NoProbe

NextFaults ==
    \/ \E e \in FaultEntries : SnapSet(e)
    \/ \E n \in 1..MaxBackends : SnapUnset(n)
    \/ \E fault \in Faults \cup {NoFault} : ConfigureUnderFault(fault)
    \/ \E fault \in Faults \cup {NoFault} : InstallUnderFault(fault)

\* the hooks run one after the other, each with or without a fault
SpecFaults == InitFaults /\ [][NextFaults]_vars

\* the places of the log where a call of the filesystem failed
Failures ==
    {n \in 1..Len(last.log) :
        /\ last.log[n].ev \in {"process", "setup_dirs"}
        /\ last.log[n].outcome = "OSError"}

\* C25: when mkdir, the write of a template or chmod fails in a run, the run
\* ends with the error: nothing follows the failed call, no template is
\* processed after it and no service is started or restarted.
C25_FilesystemErrorFatal ==
    (last.op \in {"install", "configure"} /\ Failures # {}) =>
        /\ last.raised = "OSError"
        /\ Failures = {Len(last.log)}
        /\ Len(ServiceEvents) = 0

\* a configure run that wrote templates, then failed, with templates of its
\* backends left unprocessed
C25_Witness ==
    /\ last.op = "configure"
    /\ Failures # {}
    /\ \E n \in 1..Len(ProcessEvents) : ProcessEvents[n].outcome = "written"
    /\ Len(ProcessEvents)
          < Len(GlobalTemplateFiles) + Len(AllTemplateFiles(last.contexts, 1))

\* a failure of each kind
C25_WitnessKinds ==
    /\ last.op \in {"install", "configure"}
    /\ Failures # {}
    /\ last.fault.op = "chmod"
    /\ last.log[Len(last.log)].ev = "process"

----------------------------------------------------------------------------
(* Claims about configure run twice, under Spec *)

\* a configure run on the document and the tree that a completed configure
\* run just before it left, with at least one backend
ConfiguredAgain ==
    /\ last.op = "configure"
    /\ last.again
    /\ last.raised = "none"
    /\ Len(last.contexts) >= 1

\* the fragments of the run's backends
FragmentPaths ==
    {rel_path(template_files(c)[1]) : c \in Range(last.contexts)}

\* C26, as claimed: configure run a second time with the same valid document
\* of at least one backend, the tree untouched in between, reports no
\* modified path and issues start, not restart, to every service.
C26_NoRestartWithoutChange ==
    ConfiguredAgain =>
        /\ last.modified = {}
        /\ \A n \in 1..Len(ServiceEvents) : ServiceEvents[n].ev = "start"

\* what the second run does: the cleanup has removed the fragments, so each
\* is written again and reported, and the services are restarted; the tree it
\* leaves is the tree it found
SecondConfigureRewritesFragments ==
    (ConfiguredAgain /\ last.log[1].ev = "clear" /\ last.log[1].failed = {}) =>
        /\ FragmentPaths \subseteq last.modified
        /\ last.same
        /\ \A n \in 1..Len(ServiceEvents) : ServiceEvents[n].ev = "restart"

\* a second configure run that has come to its services
SecondConfigureSeen ==
    /\ ConfiguredAgain
    /\ last.log[1].ev = "clear" /\ last.log[1].failed = {}
    /\ Len(ServiceEvents) >= 1

----------------------------------------------------------------------------
(* Claims about a configure run that fails, under Spec *)

\* the errors that a render pass raises
RenderErrors == {"TemplateNotFound", "TemplateSyntaxError", "OSError"}

\* a configure run ended by the error that the resolution of the backend
\* contexts raised
ResolutionFailed ==
    /\ last.op = "configure"
    /\ last.raised \notin {"none"} \cup RenderErrors

\* C27, as claimed: a configure run that the resolution of the backend
\* contexts ends with an error other than zero enabled backends has created,
\* changed or deleted no destination file, fragments included, and has
\* started or restarted no service.
C27_FailedConfigureChangesNothing ==
    ResolutionFailed => (last.same /\ Len(ServiceEvents) = 0)

\* what such a run does: it processes no template and touches no service,
\* and the tree it leaves is the tree it found less the fragments that the
\* cleanup removed
FailedConfigureOnlyClears ==
    ResolutionFailed =>
        /\ Len(ProcessEvents) = 0
        /\ Len(ServiceEvents) = 0
        /\ last.log[1].ev = "clear"
        /\ last.same <=> (last.log[1].removed = {})
        /\ \A f \in last.log[1].removed : f \notin DOMAIN fs

\* a failed configure run that removed a fragment of the run before it
FailedConfigureSeen ==
    ResolutionFailed /\ last.log[1].ev = "clear" /\ last.log[1].removed # {}

----------------------------------------------------------------------------
(* Claims about the files of backends taken out of the document, under Spec *)

\* a configure run that returned, with or without backends
CompletedConfigure == last.op = "configure" /\ last.raised = "none"

\* a fragment: a .conf file of the fragment directory
IsFragment(f) ==
    /\ f.dir = ETC_CINDER_D_CONF_DIR
    /\ f.name[Len(f.name)] = ".conf"

\* the backend-specific files on disk other than fragments: the certificates
\* of the fragment directory, the keyrings and the configuration files of
\* etc/ceph
BackendFilesOnDisk ==
    {f \in DOMAIN fs : f.dir \in {ETC_CINDER_D_CONF_DIR, ETC_CEPH} /\ ~IsFragment(f)}

\* the files that the backends of the run's document declare
FilesOfEnabled ==
    {rel_path(t) : t \in UNION {Range(template_files(c)) : c \in Range(last.contexts)}}

\* C28, as claimed: after a completed configure run every backend-specific
\* file on disk other than a fragment belongs to a backend that the run's
\* document enables; the files of a backend taken out of the document are
\* gone.
C28_NoStaleSecretFile ==
    CompletedConfigure => BackendFilesOnDisk \subseteq FilesOfEnabled

\* what holds of the fragments: those on disk after a completed configure
\* run whose cleanup removed what it found are fragments of enabled backends
NoStaleFragment ==
    (CompletedConfigure /\ last.log[1].ev = "clear" /\ last.log[1].failed = {}) =>
        {f \in DOMAIN fs : IsFragment(f)} \subseteq FilesOfEnabled

\* a completed configure run after which a keyring of no enabled backend is
\* on disk
StaleKeyringSeen ==
    /\ CompletedConfigure
    /\ \E f \in BackendFilesOnDisk \ FilesOfEnabled : f.dir = ETC_CEPH

\* the same with a certificate
StaleCertificateSeen ==
    /\ CompletedConfigure
    /\ \E f \in BackendFilesOnDisk \ FilesOfEnabled : f.dir = ETC_CINDER_D_CONF_DIR

----------------------------------------------------------------------------
(* Claims about the hidden keys in the namespace of the global templates,
   under Spec *)

\* the global templates of the run that were rendered, each with its
\* namespace
GlobalNamespaceEvents ==
    SelectSeq(NamespaceEvents, LAMBDA ev : ev.reserved = {})

\* a section of the document holds, under an instance key, a hidden key of
\* the backend class of the section
HiddenInSections(ns) ==
    \E kind \in KindSet \cap DOMAIN ns :
        \E key \in DOMAIN ns[kind] :
            DOMAIN ns[kind][key] \cap hidden_keys(ContextClassName(kind)) # {}

\* the aggregate section holds, under a backend's name, a hidden key of the
\* backend's class
HiddenInAggregate(ns) ==
    \E c \in Range(last.contexts) :
        DOMAIN ns.cinder_backends.contexts[c.backend_name] \cap hidden_keys(c.cls) # {}

\* C29, as claimed: in the namespace that a global template is rendered
\* with, no section holds a key of a backend's hidden-key set, neither the
\* sections of the document nor the aggregate section.
C29_HiddenKeysOutOfGlobalNamespace ==
    last.op \in {"install", "configure"} =>
        \A n \in 1..Len(GlobalNamespaceEvents) :
            LET ns == GlobalNamespaceEvents[n].raw[1].context
            IN  ~HiddenInSections(ns) /\ ~HiddenInAggregate(ns)

\* what holds: the aggregate section of that namespace holds no hidden key
AggregateSectionHidesKeys ==
    last.op \in {"install", "configure"} =>
        \A n \in 1..Len(GlobalNamespaceEvents) :
            ~HiddenInAggregate(GlobalNamespaceEvents[n].raw[1].context)

\* a global template rendered with the key of a Ceph backend in the section
\* of the document
HiddenKeySeen ==
    /\ last.op \in {"install", "configure"}
    /\ \E n \in 1..Len(GlobalNamespaceEvents) :
          LET ns == GlobalNamespaceEvents[n].raw[1].context
          IN  \E key \in DOMAIN ns["ceph"] :
                /\ "rbd_key" \in DOMAIN ns["ceph"][key]
                /\ ns["ceph"][key]["rbd_key"] # None

----------------------------------------------------------------------------
(* Claims about the result of one call of _process_template, under
   SpecFaults *)

\* the calls of the run that returned without error for a template whose
\* conditionals all held: the file was written, or the write was skipped
CompletedRenders ==
    SelectSeq(ProcessEvents,
              LAMBDA ev : ev.conds /\ ev.outcome \in {"written", "unchanged"})

\* the destination is there with the rendered output as content
HasRenderedContent(ev) ==
    /\ ev.exists
    /\ ev.after.content = ev.rendered

\* C30, as claimed: after a call of _process_template that returned without
\* error for a template whose conditionals all held, the destination is
\* there, its content is the rendered output and its mode is the mode the
\* template declares, whether the file was written or the write was skipped.
C30_CompletedRenderResult ==
    last.op \in {"install", "configure"} =>
        \A n \in 1..Len(CompletedRenders) :
            LET ev == CompletedRenders[n]
            IN  HasRenderedContent(ev) /\ ev.after.mode = ev.tpl.mode

\* what holds: the content is the rendered output in both cases, and the
\* mode is the declared one when the file was written; a skipped write
\* leaves the mode the file had
CompletedRenderContent ==
    last.op \in {"install", "configure"} =>
        \A n \in 1..Len(CompletedRenders) :
            LET ev == CompletedRenders[n]
            IN  /\ HasRenderedContent(ev)
                /\ ev.outcome = "written" => ev.after.mode = ev.tpl.mode
                /\ ev.outcome = "unchanged" => ev.existed

\* a skipped write of the Ceph keyring that leaves the file with a mode
\* other than the 0o600 its template declares
SkippedKeyringKeepsMode ==
    /\ last.op \in {"install", "configure"}
    /\ \E n \in 1..Len(CompletedRenders) :
          LET ev == CompletedRenders[n]
          IN  /\ ev.outcome = "unchanged"
              /\ ev.tpl.mode = "0o600"
              /\ ev.after.mode # "0o600"

====
